---- MODULE Spec2Model ----
(***************************************************************************)
(* A model of the firewalla-ip-monitor ingestion / retention / enrichment  *)
(* pipeline: the collector script (collect_wan_connections.sh), the web    *)
(* server (webapp/server.js) and the two ConnectionsDatabase back ends     *)
(* (PostgreSQL and SQLite).                                                *)
(*                                                                         *)
(* Several specifications share the module, among them:                    *)
(*   SpecStore   the connections / geolocations tables, batch insert and   *)
(*               the retention run (runRetentionPolicies) of either back   *)
(*               end, interleaved with ingestion;                          *)
(*   SpecGeo     the in-memory enrichment cache and concurrent             *)
(*               getIPLocation calls;                                      *)
(*   SpecIngest  one telemetry line through collector, extractIPsFromData  *)
(*               and the connectionsForDB mapping.                         *)
(***************************************************************************)
EXTENDS Integers, Sequences, FiniteSets, TLC

VARIABLES
    \* ---- persistence layer (SpecStore)
    backend,          \* which ConnectionsDatabase module is deployed
    connections,      \* the connections table: a set of rows, each with an id
    geolocations,     \* the geolocations table: the set of stored primary keys (ip)
    nextId,           \* the next AUTOINCREMENT / SERIAL id
    retentionConfig,  \* this.retentionConfig
    now,              \* the wall clock, in days
    retPc,            \* where the running runRetentionPolicies call stands
    cutoffDate,       \* cleanupByAge's local cutoffDate of the current run
    results,          \* the report the run is building: aged, sized, geolocations
    sizeMB,           \* cleanupBySize's local: the size measured on entry
    insertedDuringRun,\* history: an insert committed while the run was in progress
    lastInsert,       \* history: was the last step an insert of stored keys, did the table grow
    \* ---- enrichment cache (SpecGeo)
    geolocationCache, \* the Map geolocationCache: ip -> cached entry
    inflight,         \* getIPLocation calls suspended at `await axios.get`
    lookups,          \* history: external requests issued so far, per address
    outcomes,         \* history: the outcomes the external service gave, per address
    cacheHits,        \* history: calls answered from the cache, per address
    \* ---- ingestion path (SpecIngest)
    ingPc,            \* stage of the telemetry line in the pipeline
    source,           \* which collector function reads the line
    line,             \* the parsed addresses of the raw line / conntrack entry
    WAN_IP,           \* the collector's WAN_IP setting
    wanIPCache,       \* the server's resolved egress address (getWanIP)
    emitted,          \* the JSON objects the collector wrote for the line
    ips,              \* extractIPsFromData's result for them
    connectionsForDB, \* the ConnectionRecords handed to the database
    \* ---- aggregation query (SpecQuery)
    filters,          \* the filters of the last GET /api/connections/history-fast
    aggregated,       \* the summaries getAggregatedConnections returned for them
    \* ---- data reduction (SpecReduce)
    reducePc,         \* "idle", or "returned" once applyDataReduction has returned
    reduceInput,      \* the batch applyDataReduction was called with
    reduceOutput,     \* the array it returned
    recentListeningPorts, \* this.recentListeningPorts: portKey -> time last seen
    reduceNow,        \* Date.now(), in hours
    passedOn,         \* history: the addresses earlier calls passed on
    \* ---- job scheduling (SpecJobs)
    ingestionRuns,    \* per run slot: where a runDataCollection / loadConnectionData run stands
    retentionRuns,    \* per run slot: whether a runRetentionPolicies call is in progress
    \* ---- environment of the database (SpecBatch)
    statementErrors,  \* whether INSERT statements can end in an error (lock contention, full disk)
    idReuse,          \* whether ids are handed out again once freed (inserts without end)
    \* ---- shutdown flush (SpecShutdown)
    process,          \* "running", "stopping" once SIGINT / SIGTERM arrived, "exited"
    cacheFile,        \* what loadGeolocationCache would read from geolocation_cache.json
    saves,            \* the saveGeolocationCache calls in flight
    atSignal,         \* history: the in-memory cache when the signal arrived
    writeErrors,      \* whether fs.writeFile can fail (full disk, permissions)
    \* ---- enrichment loop of loadConnectionData (SpecCycle)
    cyclePc,          \* "idle", "loop" inside the enrichment loop, "awaiting" a lookup
    collected,        \* the external addresses the data files hold, in file order
    uniqueIPs,        \* Object.keys(ipGroups) of the running cycle
    cycleIndex,       \* the loop variable i
    cycleLookups,     \* history: external lookups the running cycle has issued
    enriched,         \* history: addresses the running cycle has called getIPLocation for
    leftOut,          \* history: addresses an ended cycle found but did not enrich
    \* ---- egress address resolution (SpecWan)
    wanNow,           \* Date.now(), in units of the cache duration
    wanIPCacheTime,   \* when wanIPCache was last resolved
    wanCalls,         \* per call slot: an isExternalIP call and its getWanIP call
    lastResolved,     \* history: the address the last successful dns.lookup gave
    \* ---- retention under failing statements (SpecCleanupFaults)
    runLog,           \* history of the running retention call: failed step, rows deleted, outcome
    cleanupErrors,    \* whether a statement or measurement of a retention run can fail
    runsInARow,       \* history: retention runs entered since the store last changed otherwise (at most 2)
    \* ---- one invocation of the collector script (SpecCollect)
    scriptStatus,     \* "idle", "running", "ok" / "failed" once the script exited, "settled"
    collectStep,      \* the position in collect_all of the source collected next
    collectedNow,     \* the sources this invocation has written a data file for
    failedSource,     \* the source whose remote command failed in this invocation
    failedWith,       \* how that remote command failed
    ingestedNow,      \* the sources of this invocation that loadConnectionData has read
    invocations,      \* how many invocations have been started
    \* ---- one call of extractIPsFromData on a parsed data file (SpecExtract)
    parsedData,       \* the parsed JSON array given as `data`
    extractType,      \* the `dataType` argument
    extractPc,        \* "idle", "given" once called, "returned" once it returned, "persisted" once inserted
    extractedIPs,     \* the array the call returned
    \* ---- GET /api/hostname/:ip and GET /api/location/:ip (SpecApi)
    apiPc,            \* "idle", or the await the handler of the current request is suspended at
    apiParam,         \* req.params.ip of the current (or last) request
    apiStatus,        \* the HTTP status of the last response (0 before any)
    hostnameCache,    \* the Map hostnameCache
    apiLookups,       \* the lookups issued so far: <<"dns" or "geo", address>>
    requestsMade,     \* how many requests have been received
    \* ---- the rows of the geolocations table (SpecUpsert)
    geoRows,          \* the rows of the geolocations table, with their columns
    geoClock,         \* CURRENT_TIMESTAMP / NOW() of the database
    lastUpserted,     \* history: per address, the geoData and time of the last upsert call
    upsertsMade,      \* how many upsert calls have been made
    \* ---- the array getAggregatedConnections resolved with (SpecQuery)
    returnedRows,     \* the summaries in the order the statement returned them
    \* ---- what the insert of the extracted records left in the connections table (SpecExtract)
    persisted,        \* the rows stored for the extracted records: ip, timestamp, direction
    \* ---- history of the listening-port records passed on (SpecReduce)
    lastListenPass,   \* history: per localAddress:localPort, when a LISTEN record was last passed on
    \* ---- one connection-tracking entry through extraction, mapping and insert (SpecNormalize)
    normPc,           \* "idle", "read", "extracted", "mapped", "inserted"
    candidate,        \* the entry of the connection_tracking data file
    extractedConn,    \* what extractIPsFromData pushed for the entry
    mappedConn,       \* connectionsForDB
    insertedRows,     \* the rows the insert stored
    stagesRun,        \* history: the stages the entry went through, in order
    \* ---- history of resolveHostname
    reverseCompleted, \* history: the addresses for which a dns.reverse lookup has settled
    \* ---- PUT /api/retention/config (SpecConfig)
    putBody,          \* req.body of the last PUT /api/retention/config
    configBefore,     \* history: db.retentionConfig when that request arrived
    putsMade,         \* requests so far
    \* ---- cleanupByAge over stored timestamp texts (SpecAge)
    ageRows,          \* the connections table: each row's timestamp text and the instant it was written
    ageNow,           \* the wall clock, in half days
    hostOffset,       \* the collector host's offset from UTC, in half days
    \* ---- history of getWanIP
    wanResolvedAt,    \* history: when dns.lookup last resolved
    \* ---- which endpoint was asked
    lastEndpoint      \* history: the endpoint of the last request, "hostname" or "location"

storeVars == <<backend, connections, geolocations, retentionConfig, nextId, now,
               retPc, cutoffDate, results, sizeMB, insertedDuringRun, lastInsert>>
geoVars == <<geolocationCache, inflight, lookups, outcomes, cacheHits>>
ingestVars == <<ingPc, source, line, WAN_IP, wanIPCache, emitted, ips, connectionsForDB>>
queryVars == <<filters, aggregated>>
reduceVars == <<reducePc, reduceInput, reduceOutput, recentListeningPorts, reduceNow,
                passedOn>>
jobVars == <<ingestionRuns, retentionRuns>>
faultVars == <<statementErrors, idReuse>>
flushVars == <<process, cacheFile, saves, atSignal, writeErrors>>
cycleVars == <<cyclePc, collected, uniqueIPs, cycleIndex, cycleLookups, enriched, leftOut>>
wanVars == <<wanNow, wanIPCacheTime, wanCalls, lastResolved>>
runLogVars == <<runLog, cleanupErrors, runsInARow>>
collectVars == <<scriptStatus, collectStep, collectedNow, failedSource, failedWith, ingestedNow, invocations>>
extractVars == <<parsedData, extractType, extractPc, extractedIPs>>
apiVars == <<apiPc, apiParam, apiStatus, hostnameCache, apiLookups, requestsMade>>
upsertVars == <<geoRows, geoClock, lastUpserted, upsertsMade>>
resultVars == <<returnedRows>>
persistVars == <<persisted>>
listenVars == <<lastListenPass>>
normVars == <<normPc, candidate, extractedConn, mappedConn, insertedRows, stagesRun>>
memoVars == <<reverseCompleted>>
configVars == <<putBody, configBefore, putsMade>>
ageVars == <<ageRows, ageNow, hostOffset>>
ttlVars == <<wanResolvedAt>>
endpointVars == <<lastEndpoint>>
otherVars == <<queryVars, reduceVars, jobVars, faultVars, flushVars, cycleVars, wanVars, runLogVars, collectVars, extractVars, apiVars, upsertVars, resultVars, persistVars, listenVars, normVars, memoVars, configVars, ageVars, ttlVars, endpointVars>>
besidesQuery == <<reduceVars, jobVars, faultVars, flushVars, cycleVars, wanVars, runLogVars, collectVars, extractVars, apiVars, upsertVars, resultVars, persistVars, listenVars, normVars, memoVars, configVars, ageVars, ttlVars, endpointVars>>
besidesReduce == <<queryVars, jobVars, faultVars, flushVars, cycleVars, wanVars, runLogVars, collectVars, extractVars, apiVars, upsertVars, resultVars, persistVars, listenVars, normVars, memoVars, configVars, ageVars, ttlVars, endpointVars>>
besidesJobs == <<queryVars, reduceVars, faultVars, flushVars, cycleVars, wanVars, runLogVars, collectVars, extractVars, apiVars, upsertVars, resultVars, persistVars, listenVars, normVars, memoVars, configVars, ageVars, ttlVars, endpointVars>>
besidesFlush == <<queryVars, reduceVars, jobVars, faultVars, cycleVars, wanVars, runLogVars, collectVars, extractVars, apiVars, upsertVars, resultVars, persistVars, listenVars, normVars, memoVars, configVars, ageVars, ttlVars, endpointVars>>
besidesCycle == <<queryVars, reduceVars, jobVars, faultVars, flushVars, wanVars, runLogVars, collectVars, extractVars, apiVars, upsertVars, resultVars, persistVars, listenVars, normVars, memoVars, configVars, ageVars, ttlVars, endpointVars>>
besidesWan == <<queryVars, reduceVars, jobVars, faultVars, flushVars, cycleVars, runLogVars, collectVars, extractVars, apiVars, upsertVars, resultVars, persistVars, listenVars, normVars, memoVars, configVars, ageVars, ttlVars, endpointVars>>
besidesWanTtl == <<queryVars, reduceVars, jobVars, faultVars, flushVars, cycleVars, runLogVars, collectVars, extractVars, apiVars, upsertVars, resultVars, persistVars, listenVars, normVars, memoVars, configVars, ageVars, endpointVars>>
besidesRunLog == <<queryVars, reduceVars, jobVars, faultVars, flushVars, cycleVars, wanVars, collectVars, extractVars, apiVars, upsertVars, resultVars, persistVars, listenVars, normVars, memoVars, configVars, ageVars, ttlVars, endpointVars>>
besidesCollect == <<queryVars, reduceVars, jobVars, faultVars, flushVars, cycleVars, wanVars, runLogVars, extractVars, apiVars, upsertVars, resultVars, persistVars, listenVars, normVars, memoVars, configVars, ageVars, ttlVars, endpointVars>>
besidesExtract == <<queryVars, reduceVars, jobVars, faultVars, flushVars, cycleVars, wanVars, runLogVars, collectVars, apiVars, upsertVars, resultVars, persistVars, listenVars, normVars, memoVars, configVars, ageVars, ttlVars, endpointVars>>
besidesApi == <<queryVars, reduceVars, jobVars, faultVars, flushVars, cycleVars, wanVars, runLogVars, collectVars, extractVars, upsertVars, resultVars, persistVars, listenVars, normVars, memoVars, configVars, ageVars, ttlVars, endpointVars>>
besidesApiEndpoint == <<queryVars, reduceVars, jobVars, faultVars, flushVars, cycleVars, wanVars, runLogVars, collectVars, extractVars, upsertVars, resultVars, persistVars, listenVars, normVars, memoVars, configVars, ageVars, ttlVars>>
besidesApiMemo == <<queryVars, reduceVars, jobVars, faultVars, flushVars, cycleVars, wanVars, runLogVars, collectVars, extractVars, upsertVars, resultVars, persistVars, listenVars, normVars, configVars, ageVars, ttlVars, endpointVars>>
besidesUpsert == <<queryVars, reduceVars, jobVars, faultVars, flushVars, cycleVars, wanVars, runLogVars, collectVars, extractVars, apiVars, resultVars, persistVars, listenVars, normVars, memoVars, configVars, ageVars, ttlVars, endpointVars>>
besidesRunLogUpsert == <<queryVars, reduceVars, jobVars, faultVars, flushVars, cycleVars, wanVars, collectVars, extractVars, apiVars, resultVars, persistVars, listenVars, normVars, memoVars, configVars, ageVars, ttlVars, endpointVars>>
besidesResult == <<queryVars, reduceVars, jobVars, faultVars, flushVars, cycleVars, wanVars, runLogVars, collectVars, extractVars, apiVars, upsertVars, persistVars, listenVars, normVars, memoVars, configVars, ageVars, ttlVars, endpointVars>>
besidesQueryResult == <<reduceVars, jobVars, faultVars, flushVars, cycleVars, wanVars, runLogVars, collectVars, extractVars, apiVars, upsertVars, persistVars, listenVars, normVars, memoVars, configVars, ageVars, ttlVars, endpointVars>>
besidesPersist == <<queryVars, reduceVars, jobVars, faultVars, flushVars, cycleVars, wanVars, runLogVars, collectVars, extractVars, apiVars, upsertVars, resultVars, listenVars, normVars, memoVars, configVars, ageVars, ttlVars, endpointVars>>
besidesExtractPersist == <<queryVars, reduceVars, jobVars, faultVars, flushVars, cycleVars, wanVars, runLogVars, collectVars, apiVars, upsertVars, resultVars, listenVars, normVars, memoVars, configVars, ageVars, ttlVars, endpointVars>>
besidesListen == <<queryVars, reduceVars, jobVars, faultVars, flushVars, cycleVars, wanVars, runLogVars, collectVars, extractVars, apiVars, upsertVars, resultVars, persistVars, normVars, memoVars, configVars, ageVars, ttlVars, endpointVars>>
besidesReduceListen == <<queryVars, jobVars, faultVars, flushVars, cycleVars, wanVars, runLogVars, collectVars, extractVars, apiVars, upsertVars, resultVars, persistVars, normVars, memoVars, configVars, ageVars, ttlVars, endpointVars>>
besidesNorm == <<queryVars, reduceVars, jobVars, faultVars, flushVars, cycleVars, wanVars, runLogVars, collectVars, extractVars, apiVars, upsertVars, resultVars, persistVars, listenVars, memoVars, configVars, ageVars, ttlVars, endpointVars>>
besidesMemo == <<queryVars, reduceVars, jobVars, faultVars, flushVars, cycleVars, wanVars, runLogVars, collectVars, extractVars, apiVars, upsertVars, resultVars, persistVars, listenVars, normVars, configVars, ageVars, ttlVars, endpointVars>>
besidesConfig == <<queryVars, reduceVars, jobVars, faultVars, flushVars, cycleVars, wanVars, runLogVars, collectVars, extractVars, apiVars, upsertVars, resultVars, persistVars, listenVars, normVars, memoVars, ageVars, ttlVars, endpointVars>>
besidesAge == <<queryVars, reduceVars, jobVars, faultVars, flushVars, cycleVars, wanVars, runLogVars, collectVars, extractVars, apiVars, upsertVars, resultVars, persistVars, listenVars, normVars, memoVars, configVars, ttlVars, endpointVars>>
besidesTtl == <<queryVars, reduceVars, jobVars, faultVars, flushVars, cycleVars, wanVars, runLogVars, collectVars, extractVars, apiVars, upsertVars, resultVars, persistVars, listenVars, normVars, memoVars, configVars, ageVars, endpointVars>>
besidesEndpoint == <<queryVars, reduceVars, jobVars, faultVars, flushVars, cycleVars, wanVars, runLogVars, collectVars, extractVars, apiVars, upsertVars, resultVars, persistVars, listenVars, normVars, memoVars, configVars, ageVars, ttlVars>>
vars == <<storeVars, geoVars, ingestVars, otherVars>>

-----------------------------------------------------------------------------
(* Addresses.  An IPv4 dotted quad is the tuple of its four octets; the      *)
(* string tests of the code (startsWith, the anchored regular expressions)   *)
(* read the leading octets of such a string.                                 *)

NoAddr == <<>>                      \* null / undefined / the empty string
WanLabel == <<0, 0, 0, 0, 0>>       \* the literal "WAN" the collector writes as internal_ip

ZeroAddr == <<0, 0, 0, 0>>
EgressAddr == <<104, 0, 40, 169>>

Addresses ==
    { <<192, 168, 86, 105>>, <<192, 168, 1, 10>>, <<10, 0, 0, 5>>,
      <<172, 16, 0, 1>>, <<172, 31, 9, 9>>, <<172, 15, 0, 1>>, <<172, 32, 0, 1>>,
      <<127, 0, 0, 1>>, <<169, 254, 1, 1>>, <<224, 0, 0, 1>>, ZeroAddr,
      <<8, 8, 8, 8>>, <<99, 182, 4, 194>>, EgressAddr }

\* ^(192\.168\.|10\.|172\.(1[6-9]|2[0-9]|3[0-1])\.)
MatchesPrivate(ip) ==
    /\ ip # NoAddr
    /\ \/ ip[1] = 192 /\ ip[2] = 168
       \/ ip[1] = 10
       \/ ip[1] = 172 /\ ip[2] >= 16 /\ ip[2] <= 31

\* ^(192\.168\.|10\.|172\.(1[6-9]|2[0-9]|3[0-1])\.|127\.)
MatchesPrivateOrLoopback(ip) ==
    MatchesPrivate(ip) \/ (ip # NoAddr /\ ip[1] = 127)

-----------------------------------------------------------------------------
(* The persistence layer.                                                    *)

MaxRows == 3        \* rows ever inserted in one behaviour (rows stored at once under idReuse)
MaxBatch == 2       \* records in one insert batch
MaxTime == 2        \* days the clock runs

NoPort == 0         \* `conn.external_port || null`: an absent port

Backends == {"sqlite", "postgres"}

\* The external addresses and the LAN host the stored records speak of.
StoreIps == { <<8, 8, 8, 8>>, <<99, 182, 4, 194>> }
LanHost == <<192, 168, 86, 105>>

\* The records an insert may be offered at time t: for one address every
\* combination of the optional key fields internal_ip / external_port present or
\* absent; for the other the shape loadConnectionData always produces
\* (`conn.internal_ip || null`, `conn.external_port || null` of records that
\* carry neither field).
ConnInputs(t) ==
    [ ip : {<<8, 8, 8, 8>>}, timestamp : {t}, direction : {"inbound"},
      internal_ip : {NoAddr, LanHost}, external_port : {NoPort, 443} ]
    \cup
    [ ip : {<<99, 182, 4, 194>>}, timestamp : {t}, direction : {"inbound"},
      internal_ip : {NoAddr}, external_port : {NoPort} ]

\* UNIQUE(ip, timestamp, direction, internal_ip, external_port) /
\* ON CONFLICT (ip, timestamp, direction, internal_ip, external_port):
\* a NULL in a key column never equals anything, itself included.
UniqueConflict(conn, row) ==
    /\ conn.ip = row.ip
    /\ conn.timestamp = row.timestamp
    /\ conn.direction = row.direction
    /\ conn.internal_ip # NoAddr /\ conn.internal_ip = row.internal_ip
    /\ conn.external_port # NoPort /\ conn.external_port = row.external_port

Row(id, conn) ==
    [ id |-> id, ip |-> conn.ip, timestamp |-> conn.timestamp,
      direction |-> conn.direction, internal_ip |-> conn.internal_ip,
      external_port |-> conn.external_port ]

\* Two records carry the same uniqueness key, absent fields included.
SameKey(a, b) ==
    /\ a.ip = b.ip /\ a.timestamp = b.timestamp /\ a.direction = b.direction
    /\ a.internal_ip = b.internal_ip /\ a.external_port = b.external_port

\* The lowest id no stored row carries.
LowestFreeId(table) ==
    CHOOSE id \in 1..(Cardinality(table) + 1) :
        /\ \A row \in table : row.id # id
        /\ \A smaller \in 1..(id - 1) : \E row \in table : row.id = smaller

\* The id the row after this one gets.  AUTOINCREMENT / SERIAL count upwards
\* without end; nothing reads an id except `DELETE ... WHERE id IN (...)`, so
\* where inserts go on for ever (idReuse) a freed id is handed out again.
IdAfter(before, after, id) ==
    IF idReuse THEN LowestFreeId(after)
    ELSE IF after = before THEN id ELSE id + 1

\* INSERT OR IGNORE INTO connections ... / INSERT ... ON CONFLICT ... DO NOTHING
InsertOrIgnore(table, conn, id) ==
    IF \E row \in table : UniqueConflict(conn, row)
    THEN table
    ELSE table \cup { Row(id, conn) }

\* The statements of the batch from position i on, inside one transaction.
\* A failing statement (i \in fails) inserts nothing; where the transaction
\* aborts on an error (PostgreSQL) every later statement fails too.
RECURSIVE InsertAll(_, _, _, _, _, _)
InsertAll(table, batch, id, fails, i, aborts) ==
    IF i > Len(batch)
    THEN [ table |-> table, nextId |-> id, aborted |-> FALSE ]
    ELSE IF i \in fails
    THEN IF aborts
         THEN [ table |-> table, nextId |-> id, aborted |-> TRUE ]
         ELSE InsertAll(table, batch, id, fails, i + 1, aborts)
    ELSE LET t == InsertOrIgnore(table, batch[i], id)
         IN  InsertAll(t, batch, IdAfter(table, t, id), fails, i + 1, aborts)

\* The id the first row of a call gets.
FirstId == IF idReuse THEN LowestFreeId(connections) ELSE nextId

Batches(t) ==
    UNION { [1..n -> ConnInputs(t)] : n \in 1..MaxBatch }

\* Which statements of a batch end in an error: none where statements cannot
\* fail, any of them otherwise.
FailurePatterns(batch) ==
    IF statementErrors THEN SUBSET (1..Len(batch)) ELSE {{}}

\* lastInsert when the step just taken was not an insert.
NoInsert == [ duplicate |-> FALSE, grew |-> FALSE, failed |-> FALSE ]

\* What the call leaves in the table: r is the outcome of the statements.
\* COMMIT of an aborted PostgreSQL transaction rolls it back.
InsertEffect(batch, fails, r) ==
    LET committed == IF r.aborted THEN connections ELSE r.table
    IN  /\ IF idReuse THEN Cardinality(r.table) <= MaxRows
                      ELSE r.nextId <= MaxRows + 1
        /\ connections' = committed
        /\ nextId' = IF idReuse \/ r.aborted THEN nextId ELSE r.nextId
        /\ insertedDuringRun' = (insertedDuringRun \/ retPc # "idle")
        /\ lastInsert' =
              [ duplicate |-> \A i \in 1..Len(batch) :
                                 \E row \in connections : SameKey(batch[i], row),
                grew |-> Cardinality(committed) > Cardinality(connections),
                failed |-> fails # {} ]
        /\ UNCHANGED <<backend, geolocations, retentionConfig, now, retPc,
                       cutoffDate, results, sizeMB>>

\* ConnectionsDatabase.insertConnectionsBatch (SQLite): BEGIN TRANSACTION,
\* stmt.run per record with the error ignored in the callback, COMMIT.
InsertConnectionsBatch ==
    /\ backend = "sqlite"
    /\ \E batch \in Batches(now) : \E fails \in FailurePatterns(batch) :
         InsertEffect(batch, fails,
                      InsertAll(connections, batch, FirstId, fails, 1, FALSE))
    /\ runsInARow' = 0
    /\ UNCHANGED <<runLog, cleanupErrors>>
    /\ UNCHANGED <<geoVars, ingestVars, besidesRunLog>>

\* ConnectionsDatabase.insertConnections (PostgreSQL), reached through
\* insertConnectionsAggregated: BEGIN, one INSERT per record inside its own
\* try/catch, COMMIT.  A batch may also re-offer what an earlier cycle read.
InsertConnections ==
    /\ backend = "postgres"
    /\ \E batch \in Batches(now) : \E fails \in FailurePatterns(batch) :
         InsertEffect(batch, fails,
                      InsertAll(connections, batch, FirstId, fails, 1, TRUE))
    /\ runsInARow' = 0
    /\ UNCHANGED <<runLog, cleanupErrors>>
    /\ UNCHANGED <<geoVars, ingestVars, besidesRunLog>>

\* upsertGeolocation / insertGeolocation: one row per ip (PRIMARY KEY).
UpsertGeolocation ==
    /\ \E ip \in StoreIps : geolocations' = geolocations \cup {ip}
    /\ geolocations' # geolocations
    /\ UNCHANGED <<backend, connections, retentionConfig, nextId, now, retPc,
                   cutoffDate, results, sizeMB, insertedDuringRun>>
    /\ lastInsert' = NoInsert
    /\ runsInARow' = 0
    /\ UNCHANGED <<runLog, cleanupErrors>>
    /\ UNCHANGED <<geoVars, ingestVars, besidesRunLog>>

\* A day passes (between retention runs: a run takes seconds).
Tick ==
    /\ now < MaxTime /\ retPc = "idle"
    /\ now' = now + 1
    /\ UNCHANGED <<backend, connections, geolocations, retentionConfig, nextId,
                   retPc, cutoffDate, results, sizeMB, insertedDuringRun>>
    /\ lastInsert' = NoInsert
    /\ runsInARow' = 0
    /\ UNCHANGED <<runLog, cleanupErrors>>
    /\ UNCHANGED <<geoVars, ingestVars, besidesRunLog>>

\* Scaled configuration: sizes in units of one row's storage, ages in days.
EmptyDbSizeMB == 1      \* the size of a database holding no rows
RowSizeMB == 1          \* what one stored row adds to the measured size
DefaultMaxSizeMB == 2   \* maxSizeMB: two rows fit, a third is over the limit
DefaultMaxAgeDays == 1  \* maxAgeDays
DefaultCleanupBatchSize == 1 \* cleanupBatchSize

\* getDatabaseSizeMB: the file size (fs.stat) / pg_database_size, taken to follow
\* the row count at once (the reading most favourable to size-based cleanup).
DatabaseSizeMB(table) == EmptyDbSizeMB + RowSizeMB * Cardinality(table)

\* SELECT id FROM connections [WHERE ...] ORDER BY timestamp ASC LIMIT n:
\* every set of ids the query may return (ties in timestamp are not ordered).
OldestBatches(candidates, n) ==
    { S \in SUBSET candidates :
        /\ Cardinality(S) = IF Cardinality(candidates) < n
                            THEN Cardinality(candidates) ELSE n
        /\ \A d \in S : \A r \in candidates \ S : d.timestamp <= r.timestamp }

Expired(table, cutoff) == { r \in table : r.timestamp < cutoff }

\* runLog while no retention call is running.
NoRunLog == [ failed |-> FALSE, deleted |-> 0, outcome |-> "none" ]

\* Whether the statement at hand ends in an error.
CleanupFaults == IF cleanupErrors THEN BOOLEAN ELSE {FALSE}

\* getDatabaseSizeMB: `catch (error) { console.warn(...); return 0; }`
MeasuredSizeMB(table, failed) == IF failed THEN 0 ELSE DatabaseSizeMB(table)

\* totalDeleted, which grows for as long as the loop turns: a count above
\* MaxRows is kept as MaxRows (a run deletes more only where inserts go on).
Counted(n) == IF n > MaxRows THEN MaxRows ELSE n

\* The run has deleted the rows S.
Deleted(S) == [runLog EXCEPT !.deleted = Counted(@ + Cardinality(S))]

\* A step failed and the error was caught where it arose.
Absorbed == [runLog EXCEPT !.failed = TRUE]

\* A step rejected: runRetentionPolicies (SQLite) logs and rethrows.
Thrown == [runLog EXCEPT !.failed = TRUE, !.outcome = "threw"]

\* runRetentionPolicies is entered (cron, every 30 minutes, or POST /api/retention/run).
RunRetentionPolicies ==
    /\ retPc = "idle"
    /\ retPc' = "age"
    /\ results' = [ aged |-> 0, sized |-> 0, geolocations |-> 0 ]
    /\ insertedDuringRun' = FALSE
    /\ runLog' = NoRunLog
    /\ UNCHANGED <<backend, connections, geolocations, retentionConfig, nextId, now,
                   cutoffDate, sizeMB>>
    /\ lastInsert' = NoInsert
    /\ runsInARow' = IF runsInARow < 2 THEN runsInARow + 1 ELSE 2
    /\ UNCHANGED cleanupErrors
    /\ UNCHANGED <<geoVars, ingestVars, besidesRunLog>>

\* cleanupByAge (SQLite): one DELETE of at most cleanupBatchSize expired rows;
\* an error rejects and the run rethrows it.
CleanupByAgeSqlite ==
    /\ retPc = "age" /\ backend = "sqlite"
    /\ IF ~retentionConfig.enableTimeLimit
       THEN /\ retPc' = "size"
            /\ UNCHANGED <<connections, cutoffDate, results, runLog>>
       ELSE /\ cutoffDate' = now - retentionConfig.maxAgeDays
            /\ \E failed \in CleanupFaults :
                 IF failed
                 THEN /\ retPc' = "done"
                      /\ runLog' = Thrown
                      /\ UNCHANGED <<connections, results>>
                 ELSE \E S \in OldestBatches(Expired(connections, cutoffDate'),
                                            retentionConfig.cleanupBatchSize) :
                        /\ connections' = connections \ S
                        /\ results' = [results EXCEPT !.aged = Cardinality(S)]
                        /\ runLog' = Deleted(S)
                        /\ retPc' = "size"
    /\ UNCHANGED <<backend, geolocations, retentionConfig, nextId, now, sizeMB,
                   insertedDuringRun>>
    /\ lastInsert' = NoInsert
    /\ UNCHANGED <<cleanupErrors, runsInARow>>
    /\ UNCHANGED <<geoVars, ingestVars, besidesRunLog>>

\* cleanupByAge (PostgreSQL): DELETE FROM connections WHERE timestamp < $1; an
\* error is caught and 0 returned.
CleanupByAgePostgres ==
    /\ retPc = "age" /\ backend = "postgres"
    /\ IF ~retentionConfig.enableTimeLimit
       THEN UNCHANGED <<connections, cutoffDate, results, runLog>>
       ELSE /\ cutoffDate' = now - retentionConfig.maxAgeDays
            /\ \E failed \in CleanupFaults :
                 IF failed
                 THEN /\ runLog' = Absorbed
                      /\ UNCHANGED <<connections, results>>
                 ELSE /\ connections' = connections \ Expired(connections, cutoffDate')
                      /\ results' = [results EXCEPT
                            !.aged = Cardinality(Expired(connections, cutoffDate'))]
                      /\ runLog' = Deleted(Expired(connections, cutoffDate'))
    /\ retPc' = "size"
    /\ UNCHANGED <<backend, geolocations, retentionConfig, nextId, now, sizeMB,
                   insertedDuringRun>>
    /\ lastInsert' = NoInsert
    /\ UNCHANGED <<cleanupErrors, runsInARow>>
    /\ UNCHANGED <<geoVars, ingestVars, besidesRunLog>>

\* cleanupBySize (SQLite): no-op when disabled or within the limit, else one
\* DELETE of the cleanupBatchSize oldest rows; an error rejects and the run
\* rethrows it.
CleanupBySizeSqlite ==
    /\ retPc = "size" /\ backend = "sqlite"
    /\ IF ~retentionConfig.enableSizeLimit
       THEN /\ retPc' = "orphans"
            /\ UNCHANGED <<connections, results, sizeMB, runLog>>
       ELSE \E unmeasured \in CleanupFaults, failed \in CleanupFaults :
              /\ sizeMB' = MeasuredSizeMB(connections, unmeasured)
              /\ IF sizeMB' <= retentionConfig.maxSizeMB
                 THEN /\ ~failed
                      /\ retPc' = "orphans"
                      /\ runLog' = IF unmeasured THEN Absorbed ELSE runLog
                      /\ UNCHANGED <<connections, results>>
                 ELSE IF failed
                 THEN /\ retPc' = "done"
                      /\ runLog' = Thrown
                      /\ UNCHANGED <<connections, results>>
                 ELSE \E S \in OldestBatches(connections,
                                             retentionConfig.cleanupBatchSize) :
                        /\ connections' = connections \ S
                        /\ results' = [results EXCEPT !.sized = Cardinality(S)]
                        /\ runLog' = Deleted(S)
                        /\ retPc' = "orphans"
    /\ UNCHANGED <<backend, geolocations, retentionConfig, nextId, now, cutoffDate,
                   insertedDuringRun>>
    /\ lastInsert' = NoInsert
    /\ UNCHANGED <<cleanupErrors, runsInARow>>
    /\ UNCHANGED <<geoVars, ingestVars, besidesRunLog>>

\* cleanupBySize (PostgreSQL), entry: no-op when disabled or within the limit,
\* else the deletion loop is entered with totalDeleted = 0.
CleanupBySizePostgres ==
    /\ retPc = "size" /\ backend = "postgres"
    /\ IF ~retentionConfig.enableSizeLimit
       THEN /\ retPc' = "orphans"
            /\ UNCHANGED <<sizeMB, runLog>>
       ELSE \E unmeasured \in CleanupFaults :
              /\ sizeMB' = MeasuredSizeMB(connections, unmeasured)
              /\ runLog' = IF unmeasured THEN Absorbed ELSE runLog
              /\ retPc' = IF sizeMB' <= retentionConfig.maxSizeMB
                          THEN "orphans" ELSE "sizeLoop"
    /\ UNCHANGED <<backend, connections, geolocations, retentionConfig, nextId, now,
                   cutoffDate, results, insertedDuringRun>>
    /\ lastInsert' = NoInsert
    /\ UNCHANGED <<cleanupErrors, runsInARow>>
    /\ UNCHANGED <<geoVars, ingestVars, besidesRunLog>>

\* cleanupBySize (PostgreSQL), one turn of
\*   while (await this.getDatabaseSizeMB() > maxSizeMB) { DELETE oldest batchSize;
\*       totalDeleted += deleted; if (deleted < batchSize) break; }
\* inside `try { ... } catch (error) { ...; return 0; }`.
CleanupBySizeLoop ==
    /\ retPc = "sizeLoop" /\ backend = "postgres"
    /\ \E unmeasured \in CleanupFaults, failed \in CleanupFaults :
         IF MeasuredSizeMB(connections, unmeasured) > retentionConfig.maxSizeMB
         THEN IF failed
              THEN /\ results' = [results EXCEPT !.sized = 0]
                   /\ runLog' = Absorbed
                   /\ retPc' = "orphans"
                   /\ UNCHANGED connections
              ELSE \E S \in OldestBatches(connections,
                                          retentionConfig.cleanupBatchSize) :
                     /\ connections' = connections \ S
                     /\ results' = [results EXCEPT
                                      !.sized = Counted(@ + Cardinality(S))]
                     /\ runLog' = Deleted(S)
                     /\ retPc' = IF Cardinality(S) < retentionConfig.cleanupBatchSize
                                 THEN "orphans" ELSE "sizeLoop"
         ELSE /\ ~failed
              /\ retPc' = "orphans"
              /\ runLog' = IF unmeasured THEN Absorbed ELSE runLog
              /\ UNCHANGED <<connections, results>>
    /\ UNCHANGED <<backend, geolocations, retentionConfig, nextId, now, cutoffDate,
                   sizeMB, insertedDuringRun>>
    /\ lastInsert' = NoInsert
    /\ UNCHANGED <<cleanupErrors, runsInARow>>
    /\ UNCHANGED <<geoVars, ingestVars, besidesRunLog>>

\* cleanupOrphanedGeolocations (SQLite):
\*   DELETE FROM geolocations WHERE ip NOT IN (SELECT DISTINCT ip FROM connections)
\* and the report is returned (fewer than 1000 rows go in one run: no VACUUM;
\* sendCleanupNotification catches its own errors).  An error rejects and the
\* run rethrows it.
CleanupOrphanedGeolocations ==
    /\ retPc = "orphans" /\ backend = "sqlite"
    /\ \E failed \in CleanupFaults :
         IF failed
         THEN /\ runLog' = Thrown
              /\ UNCHANGED <<geolocations, results>>
         ELSE /\ geolocations' = { g \in geolocations : \E r \in connections : r.ip = g }
              /\ results' = [results EXCEPT
                               !.geolocations = Cardinality(geolocations \ geolocations')]
              /\ runLog' = [runLog EXCEPT !.outcome = "returned"]
    /\ retPc' = "done"
    /\ UNCHANGED <<backend, connections, retentionConfig, nextId, now, cutoffDate,
                   sizeMB, insertedDuringRun>>
    /\ lastInsert' = NoInsert
    /\ UNCHANGED <<cleanupErrors, runsInARow>>
    /\ UNCHANGED <<geoVars, ingestVars, besidesRunLog>>

\* runRetentionPolicies (PostgreSQL) after the two cleanups:
\*   geolocations: 0 // Could implement geolocation cleanup later
\* then VACUUM ANALYZE inside its own try/catch: the geolocations table is not
\* touched, and the report is returned.
VacuumAnalyzePostgres ==
    /\ retPc = "orphans" /\ backend = "postgres"
    /\ results' = [results EXCEPT !.geolocations = 0]
    /\ \E failed \in CleanupFaults :
         runLog' = [runLog EXCEPT !.failed = @ \/ failed, !.outcome = "returned"]
    /\ retPc' = "done"
    /\ UNCHANGED <<backend, connections, geolocations, retentionConfig, nextId, now,
                   cutoffDate, sizeMB, insertedDuringRun>>
    /\ lastInsert' = NoInsert
    /\ UNCHANGED <<cleanupErrors, runsInARow>>
    /\ UNCHANGED <<geoVars, ingestVars, besidesRunLog>>

\* The caller (the cron callback or the /api/retention/run handler, each with
\* its own try/catch) has the report or the error; the next run may start.
RetentionReturn ==
    /\ retPc = "done"
    /\ retPc' = "idle"
    /\ cutoffDate' = 0
    /\ sizeMB' = 0
    /\ results' = [ aged |-> 0, sized |-> 0, geolocations |-> 0 ]
    /\ insertedDuringRun' = FALSE
    /\ runLog' = NoRunLog
    /\ UNCHANGED <<backend, connections, geolocations, retentionConfig, nextId, now>>
    /\ lastInsert' = NoInsert
    /\ UNCHANGED <<cleanupErrors, runsInARow>>
    /\ UNCHANGED <<geoVars, ingestVars, besidesRunLog>>

-----------------------------------------------------------------------------
(* The enrichment cache.                                                     *)

MaxLookups == 3     \* external requests issued in one behaviour

GeoIps == { <<8, 8, 8, 8>>, <<99, 182, 4, 194>> }

\* What the Map holds for an address: locationData or failureData.
CacheEntries == {"location", "failure"}

\* What the external geolocation service may answer to one request.
LookupOutcomes == {"success", "fail_status", "throw"}

\* geolocationCache.has(ip), read as "holds a location" (failure entries missed).
CacheHasLocation(ip) ==
    ip \in DOMAIN geolocationCache /\ geolocationCache[ip] = "location"

\* geolocationCache.has(ip)
CacheHas(ip) == ip \in DOMAIN geolocationCache

\* geolocationCache.set(ip, entry)
CacheSet(ip, entry) ==
    [ a \in DOMAIN geolocationCache \cup {ip} |->
        IF a = ip THEN entry ELSE geolocationCache[a] ]

TotalLookups == lookups[<<8, 8, 8, 8>>] + lookups[<<99, 182, 4, 194>>]

\* getIPLocation(ip), up to its first suspension: a cached entry (location or
\* failure marker) is returned; otherwise the request is sent and the call
\* suspends at `await axios.get(...)`.  Callers: the enrichment loop of
\* loadConnectionData and GET /api/location/:ip, which may overlap.
GetIPLocationCall ==
    /\ \E ip \in GeoIps :
         IF CacheHas(ip)
         THEN /\ cacheHits' = [cacheHits EXCEPT ![ip] = @ \cup {geolocationCache[ip]}]
              /\ UNCHANGED <<inflight, lookups>>
         ELSE /\ TotalLookups < MaxLookups
              /\ lookups' = [lookups EXCEPT ![ip] = @ + 1]
              /\ inflight' = [inflight EXCEPT ![ip] = @ + 1]
              /\ UNCHANGED cacheHits
    /\ UNCHANGED <<geolocationCache, outcomes>>
    /\ UNCHANGED <<storeVars, ingestVars, otherVars>>

\* getIPLocation(ip), resumed with the service's answer: status "success" caches
\* the location; any other status falls through to `return null`; a thrown
\* error caches the failure marker.
GetIPLocationResume ==
    /\ \E ip \in GeoIps, outcome \in LookupOutcomes :
         /\ inflight[ip] > 0
         /\ inflight' = [inflight EXCEPT ![ip] = @ - 1]
         /\ outcomes' = [outcomes EXCEPT ![ip] = @ \cup {outcome}]
         /\ geolocationCache' =
              CASE outcome = "success" -> CacheSet(ip, "location")
                [] outcome = "throw" -> CacheSet(ip, "failure")
                [] OTHER -> geolocationCache
    /\ UNCHANGED <<lookups, cacheHits>>
    /\ UNCHANGED <<storeVars, ingestVars, otherVars>>

-----------------------------------------------------------------------------
(* The two per-address endpoints of the query interface.  req.params.ip is   *)
(* the text of one path segment; it is modelled as its dot-separated parts,  *)
(* a part being the number its decimal digits spell or NotDigits.            *)

MaxRequests == 2    \* requests received in one behaviour

NotDigits == -1     \* a part that is empty or holds a character other than 0-9

Parts == {8, 256, NotDigits}

RequestParams ==
    { <<a, 8, 8, b>> : a, b \in Parts } \cup { <<8, 8, 8>>, <<8, 8, 8, 8, 8>> }

\* ip.match(/^\d+\.\d+\.\d+\.\d+$/)
MatchesDottedDigits(ip) == Len(ip) = 4 /\ \A i \in 1..4 : ip[i] # NotDigits

\* An IPv4 dotted quad: four octets, each 0..255.
ValidIPv4(ip) == Len(ip) = 4 /\ \A i \in 1..4 : ip[i] \in 0..255

\* hostnameCache.set(ip, hostname)
HostnameCacheSet(ip, hostname) ==
    [ a \in DOMAIN hostnameCache \cup {ip} |->
        IF a = ip THEN hostname ELSE hostnameCache[a] ]

\* How dns.reverse(ip) settles: with names, with an empty list, or rejected;
\* the resolver rejects a text that is no address.
ReverseOutcomes(ip) == IF ValidIPv4(ip) THEN {"names", "empty", "throw"} ELSE {"throw"}

\* app.get('/api/hostname/:ip'), up to its response or the await of dns.reverse.
GetHostnameRequest ==
    /\ apiPc = "idle" /\ requestsMade < MaxRequests
    /\ requestsMade' = requestsMade + 1
    /\ lastEndpoint' = "hostname"
    /\ \E ip \in RequestParams :
         /\ apiParam' = ip
         /\ IF ~MatchesDottedDigits(ip)
            THEN /\ apiStatus' = 400
                 /\ UNCHANGED <<apiPc, apiLookups>>
            ELSE IF ip \in DOMAIN hostnameCache
            THEN /\ apiStatus' = 200
                 /\ UNCHANGED <<apiPc, apiLookups>>
            ELSE /\ apiPc' = "reverse"
                 /\ apiLookups' = apiLookups \cup {<<"dns", ip>>}
                 /\ UNCHANGED apiStatus
    /\ UNCHANGED hostnameCache
    /\ UNCHANGED <<storeVars, geoVars, ingestVars, besidesApiEndpoint>>

\* resolveHostname resumed by dns.reverse, and res.json({ ip, hostname }).
GetHostnameResume ==
    /\ apiPc = "reverse"
    /\ \E outcome \in ReverseOutcomes(apiParam) :
         hostnameCache' =
            CASE outcome = "names" -> HostnameCacheSet(apiParam, "hostname")
              [] outcome = "throw" -> HostnameCacheSet(apiParam, "No hostname found")
              [] OTHER -> hostnameCache
    /\ apiStatus' = 200
    /\ apiPc' = "idle"
    /\ reverseCompleted' = reverseCompleted \cup {apiParam}
    /\ UNCHANGED <<apiParam, apiLookups, requestsMade>>
    /\ UNCHANGED <<storeVars, geoVars, ingestVars, besidesApiMemo>>

\* app.get('/api/location/:ip'), up to its response or the await of axios.get
\* in getIPLocation; a cached entry, failure markers included, is answered as is.
GetLocationRequest ==
    /\ apiPc = "idle" /\ requestsMade < MaxRequests
    /\ requestsMade' = requestsMade + 1
    /\ lastEndpoint' = "location"
    /\ \E ip \in RequestParams :
         /\ apiParam' = ip
         /\ IF ~MatchesDottedDigits(ip)
            THEN /\ apiStatus' = 400
                 /\ UNCHANGED <<apiPc, apiLookups>>
            ELSE IF CacheHas(ip)
            THEN /\ apiStatus' = 200
                 /\ UNCHANGED <<apiPc, apiLookups>>
            ELSE /\ apiPc' = "axios"
                 /\ apiLookups' = apiLookups \cup {<<"geo", ip>>}
                 /\ UNCHANGED apiStatus
    /\ UNCHANGED hostnameCache
    /\ UNCHANGED <<storeVars, geoVars, ingestVars, besidesApiEndpoint>>

\* getIPLocation resumed by the service's answer, and the response: the
\* location, or 404 where getIPLocation returned null.
GetLocationResume ==
    /\ apiPc = "axios"
    /\ \E outcome \in LookupOutcomes :
         /\ geolocationCache' =
              CASE outcome = "success" -> CacheSet(apiParam, "location")
                [] outcome = "throw" -> CacheSet(apiParam, "failure")
                [] OTHER -> geolocationCache
         /\ apiStatus' = IF outcome = "success" THEN 200 ELSE 404
    /\ apiPc' = "idle"
    /\ UNCHANGED <<apiParam, hostnameCache, apiLookups, requestsMade>>
    /\ UNCHANGED <<inflight, lookups, outcomes, cacheHits>>
    /\ UNCHANGED <<storeVars, ingestVars, besidesApi>>

-----------------------------------------------------------------------------
(* The ingestion path: one raw line through a collector function, then       *)
(* extractIPsFromData, then the connectionsForDB mapping of                  *)
(* loadConnectionData.                                                       *)

Sources == {"connections", "realtime_connections", "connection_tracking"}

NoDirection == ""   \* the JSON object carries no "direction" field
NoData == <<>>      \* the JSON object carries no "data" field

\* The addresses a raw line of each source holds:
\*   connections           the two trailing addresses ip1 ip2 of a BroDetect line
\*   realtime_connections  the local and peer address of an `ss -tuln4` line
\*   connection_tracking   orig_src, orig_dst, reply_src of a conntrack entry
Lines(src) ==
    IF src = "connection_tracking"
    THEN Addresses \X Addresses \X Addresses
    ELSE Addresses \X Addresses

\* One JSON object of a collector output file.
Item(direction, external_ip, internal_ip, data) ==
    [ direction |-> direction, external_ip |-> external_ip,
      internal_ip |-> internal_ip, data |-> data ]

\* collect_firemain_ips, the body of the read loop for one matching line.
FiremainItems(ip1, ip2, wan) ==
    LET external_ip == IF MatchesPrivate(ip1) THEN ip2
                       ELSE IF MatchesPrivate(ip2) THEN ip1
                       ELSE IF ip1 # wan THEN ip1 ELSE ip2
        internal_ip == IF MatchesPrivate(ip1) THEN ip1
                       ELSE IF MatchesPrivate(ip2) THEN ip2
                       ELSE WanLabel
    IN  IF external_ip # NoAddr
        THEN { Item(NoDirection, external_ip, internal_ip, NoData) }
        ELSE {}

\* collect_connection_tracking, the body of the read loop for one matching entry.
ConntrackItems(orig_src, orig_dst, reply_src, wan) ==
    IF MatchesPrivate(orig_src)
    THEN IF ~MatchesPrivateOrLoopback(orig_dst) /\ orig_dst # wan
         THEN { Item("outbound", orig_dst, orig_src, NoData) }
         ELSE {}
    ELSE IF ~MatchesPrivateOrLoopback(reply_src) /\ reply_src # wan
         THEN { Item("inbound", reply_src, orig_dst, NoData) }
         ELSE {}

\* collect_realtime_connections: `ss -tuln4 | grep -v '127.0.0.1'`, the line
\* itself is written as the "data" field.
RealtimeItems(a, b) ==
    IF <<127, 0, 0, 1>> \in {a, b}
    THEN {}
    ELSE { Item(NoDirection, NoAddr, NoAddr, <<a, b>>) }

CollectFiremainIps ==
    /\ ingPc = "raw" /\ source = "connections"
    /\ emitted' = FiremainItems(line[1], line[2], WAN_IP)
    /\ ingPc' = "collected"
    /\ UNCHANGED <<source, line, WAN_IP, wanIPCache, ips, connectionsForDB>>
    /\ UNCHANGED <<storeVars, geoVars, otherVars>>

CollectRealtimeConnections ==
    /\ ingPc = "raw" /\ source = "realtime_connections"
    /\ emitted' = RealtimeItems(line[1], line[2])
    /\ ingPc' = "collected"
    /\ UNCHANGED <<source, line, WAN_IP, wanIPCache, ips, connectionsForDB>>
    /\ UNCHANGED <<storeVars, geoVars, otherVars>>

CollectConnectionTracking ==
    /\ ingPc = "raw" /\ source = "connection_tracking"
    /\ emitted' = ConntrackItems(line[1], line[2], line[3], WAN_IP)
    /\ ingPc' = "collected"
    /\ UNCHANGED <<source, line, WAN_IP, wanIPCache, ips, connectionsForDB>>
    /\ UNCHANGED <<storeVars, geoVars, otherVars>>

\* isExternalIP(ip), after `const wanIP = await getWanIP()` (null while unresolved).
IsExternalGiven(ip, wanIP) ==
    /\ ip # NoAddr /\ Len(ip) = 4
    /\ ~(wanIP # NoAddr /\ ip = wanIP)
    /\ ~(ip[1] = 192 /\ ip[2] = 168)
    /\ ip[1] # 10
    /\ ~(ip[1] = 172 /\ ip[2] >= 16 /\ ip[2] <= 31)
    /\ ip[1] # 127
    /\ ~(ip[1] = 169 /\ ip[2] = 254)
    /\ ip[1] # 224

\* isExternalIP(ip) where getWanIP returns the cached address.
isExternalIP(ip) == IsExternalGiven(ip, wanIPCache)

\* What extractIPsFromData pushes: ip, timestamp, type, details, direction and
\* nothing else (details is free text).
Extracted(ip, type, direction) ==
    [ ip |-> ip, type |-> type, direction |-> direction ]

\* extractIPsFromData(data, dataType), the switch for one item.
ExtractItem(item, dataType) ==
    CASE dataType = "connections" ->
           IF item.external_ip # NoAddr /\ isExternalIP(item.external_ip)
           THEN { Extracted(item.external_ip, "firemain_log", "inbound") }
           ELSE {}
      [] dataType = "realtime_connections" ->
           { Extracted(item.data[i], "listening_port", "inbound") :
               i \in { j \in DOMAIN item.data : isExternalIP(item.data[j]) } }
      [] dataType = "connection_tracking" ->
           IF item.external_ip # NoAddr /\ isExternalIP(item.external_ip)
           THEN { Extracted(item.external_ip, "connection_tracking", item.direction) }
           ELSE {}

extractIPsFromData ==
    /\ ingPc = "collected"
    /\ ips' = UNION { ExtractItem(item, source) : item \in emitted }
    /\ ingPc' = "extracted"
    /\ UNCHANGED <<source, line, WAN_IP, wanIPCache, emitted, connectionsForDB>>
    /\ UNCHANGED <<storeVars, geoVars, otherVars>>

-----------------------------------------------------------------------------
(* extractIPsFromData on a whole parsed file, whose entries can be any JSON  *)
(* value: null, or an object holding any subset of the fields, a field       *)
(* holding a string or a value of another type.                              *)

MaxEntries == 2     \* entries of one parsed data file

NoTimestamp == 0    \* the entry has no "timestamp" field
FileTimestamp == 1  \* the "timestamp" the collector wrote

\* The value of an address field: absent, a number, or a string.
Undefined == [type |-> "undefined", ip |-> NoAddr]
ANumber == [type |-> "number", ip |-> NoAddr]
AString(ip) == [type |-> "string", ip |-> ip]

JsonNull ==
    [ null |-> TRUE, external_ip |-> Undefined, local_ip |-> Undefined,
      direction |-> NoDirection, timestamp |-> NoTimestamp ]

JsonObjects ==
    [ null : {FALSE},
      external_ip : {Undefined, ANumber, AString(<<8, 8, 8, 8>>), AString(EgressAddr)},
      local_ip : {Undefined, ANumber, AString(<<99, 182, 4, 194>>)},
      direction : {NoDirection, "inbound"},
      timestamp : {NoTimestamp, FileTimestamp} ]

JsonEntries == {JsonNull} \cup JsonObjects

DataTypes == {"connections", "current_connections", "connection_tracking"}

\* `value && ...`: undefined is falsy, a non-zero number and a non-empty string are truthy.
Truthy(value) == value.type = "number" \/ (value.type = "string" /\ value.ip # NoAddr)

\* await isExternalIP(value): "throws" where `ip.match` is not a function.
IsExternalValue(value, wanIP) ==
    IF ~Truthy(value) THEN "no"
    ELSE IF value.type # "string" THEN "throws"
    ELSE IF IsExternalGiven(value.ip, wanIP) THEN "yes" ELSE "no"

\* ips.push({ ip, timestamp: item.timestamp, type, details, direction })
Pushed(ip, timestamp, type, direction) ==
    [ ip |-> ip, timestamp |-> timestamp, type |-> type, direction |-> direction ]

\* The body of `for (const item of data) { try { switch ... } catch { log } }`
\* for one item: what it pushes.  Reading a field of null throws, and so does
\* isExternalIP of a non-string; the catch logs and the loop goes on.
ExtractEntry(item, type, wanIP) ==
    IF item.null THEN <<>>
    ELSE CASE type = "connections" ->
                IF Truthy(item.external_ip)
                   /\ IsExternalValue(item.external_ip, wanIP) = "yes"
                THEN << Pushed(item.external_ip.ip, item.timestamp,
                               "firemain_log", "inbound") >>
                ELSE <<>>
           [] type = "current_connections" ->
                IF Truthy(item.local_ip) /\ Truthy(item.external_ip)
                THEN LET actualExternalIP ==
                             IF item.external_ip = AString(wanIP)
                             THEN item.local_ip ELSE item.external_ip
                     IN  IF IsExternalValue(actualExternalIP, wanIP) = "yes"
                         THEN << Pushed(actualExternalIP.ip, item.timestamp,
                                        "active_connection", "inbound") >>
                         ELSE <<>>
                ELSE <<>>
           [] type = "connection_tracking" ->
                IF Truthy(item.external_ip)
                   /\ IsExternalValue(item.external_ip, wanIP) = "yes"
                THEN << Pushed(item.external_ip.ip, item.timestamp,
                               "connection_tracking", item.direction) >>
                ELSE <<>>

\* The whole loop over data[i..].
RECURSIVE ExtractFrom(_, _, _, _)
ExtractFrom(data, i, type, wanIP) ==
    IF i > Len(data) THEN <<>>
    ELSE ExtractEntry(data[i], type, wanIP) \o ExtractFrom(data, i + 1, type, wanIP)

\* A parsed file is handed to extractIPsFromData.
ExtractIPsFromDataCall ==
    /\ extractPc = "idle"
    /\ \E n \in 1..MaxEntries : parsedData' \in [1..n -> JsonEntries]
    /\ extractType' \in DataTypes
    /\ extractPc' = "given"
    /\ UNCHANGED extractedIPs
    /\ UNCHANGED <<storeVars, geoVars, ingestVars, besidesExtract>>

\* extractIPsFromData(data, dataType) runs to its `return ips`.
ExtractIPsFromDataReturn ==
    /\ extractPc = "given"
    /\ extractedIPs' = ExtractFrom(parsedData, 1, extractType, wanIPCache)
    /\ extractPc' = "returned"
    /\ UNCHANGED <<parsedData, extractType>>
    /\ UNCHANGED <<storeVars, geoVars, ingestVars, besidesExtract>>

IngestionTime == 2  \* the time at which loadConnectionData runs

\* loadConnectionData: connectionsForDB, the columns of the uniqueness key
\* that extractIPsFromData provides.
MappedForDB(conn) ==
    [ ip |-> conn.ip,
      timestamp |-> conn.timestamp,
      direction |-> IF conn.direction = NoDirection THEN "inbound" ELSE conn.direction ]

\* The elements of a sequence.
Range(seq) == { seq[i] : i \in DOMAIN seq }

\* loadConnectionData after the extraction: the connectionsForDB mapping and
\* the insert.  An undefined timestamp is bound as NULL.  SQLite: the column is
\* NOT NULL and INSERT OR IGNORE skips the row.  PostgreSQL: where the column
\* is NOT NULL the statement fails, the transaction is aborted and COMMIT
\* rolls the batch back; where it is nullable the row is stored as it is.
InsertExtracted ==
    /\ extractPc = "returned"
    /\ LET rows == { MappedForDB(conn) : conn \in Range(extractedIPs) }
           dated == { r \in rows : r.timestamp # NoTimestamp }
       IN  IF backend = "sqlite"
           THEN persisted' = dated
           ELSE \E notNull \in BOOLEAN :
                  persisted' = IF notNull
                               THEN IF dated = rows THEN rows ELSE {}
                               ELSE rows
    /\ extractPc' = "persisted"
    /\ UNCHANGED <<parsedData, extractType, extractedIPs>>
    /\ UNCHANGED <<storeVars, geoVars, ingestVars, besidesExtractPersist>>

-----------------------------------------------------------------------------
\* conn.<field> || <fallback>: the field when the object has it and it is truthy.
FieldOr(conn, field, absent, fallback) ==
    IF field \in DOMAIN conn /\ conn[field] # absent THEN conn[field] ELSE fallback

\* loadConnectionData: allConnectionData.map(conn => ({ ... }))
ConnectionForDB(conn) ==
    [ ip |-> conn.ip,
      direction |-> FieldOr(conn, "direction", NoDirection, "inbound"),
      connection_type |-> conn.type,
      internal_ip |-> FieldOr(conn, "internal_ip", NoAddr, NoAddr),
      external_port |-> FieldOr(conn, "external_port", NoPort, NoPort) ]

loadConnectionData ==
    /\ ingPc = "extracted"
    /\ connectionsForDB' = { ConnectionForDB(conn) : conn \in ips }
    /\ ingPc' = "mapped"
    /\ UNCHANGED <<source, line, WAN_IP, wanIPCache, emitted, ips>>
    /\ UNCHANGED <<storeVars, geoVars, otherVars>>

-----------------------------------------------------------------------------
(* The geolocations table row by row: upsertGeolocation (SQLite) and         *)
(* insertGeolocation (PostgreSQL), called from the enrichment loop with the  *)
(* object getIPLocation returned.  The statement is taken to succeed.        *)

MaxUpserts == 3     \* upsert calls in one behaviour
MaxGeoTime == 2     \* seconds the database clock runs

NoText == ""        \* undefined in the object, NULL in the column

\* locationData of getIPLocation: country, countryCode, ... (no country_code
\* and no hostname field).
GeoDatas == [ country : {"United States", "Germany"}, countryCode : {"US", "DE"} ]

NoUpsert == [ geoData |-> [ country |-> NoText, countryCode |-> NoText ], at |-> 0, made |-> FALSE ]

GeoRow(ip, country, country_code, hostname, last_updated) ==
    [ ip |-> ip, country |-> country, country_code |-> country_code,
      hostname |-> hostname, last_updated |-> last_updated ]

\* INSERT OR REPLACE / ON CONFLICT (ip) DO UPDATE: the row of the address is
\* replaced, the other rows stay.
Upserted(row) == { r \in geoRows : r.ip # row.ip } \cup {row}

\* ConnectionsDatabase.upsertGeolocation (SQLite).
UpsertGeolocationSqlite ==
    /\ backend = "sqlite" /\ upsertsMade < MaxUpserts
    /\ upsertsMade' = upsertsMade + 1
    /\ \E ip \in StoreIps, geoData \in GeoDatas :
         /\ geoRows' = Upserted(GeoRow(ip, geoData.country,
                                       FieldOr(geoData, "countryCode", NoText, NoText),
                                       FieldOr(geoData, "hostname", NoText, "No hostname found"),
                                       geoClock))
         /\ geolocations' = geolocations \cup {ip}
         /\ lastUpserted' = [lastUpserted EXCEPT
                               ![ip] = [geoData |-> geoData, at |-> geoClock, made |-> TRUE]]
    /\ UNCHANGED <<backend, connections, retentionConfig, nextId, now, retPc,
                   cutoffDate, results, sizeMB, insertedDuringRun>>
    /\ lastInsert' = NoInsert
    /\ runsInARow' = 0
    /\ UNCHANGED <<geoClock, runLog, cleanupErrors>>
    /\ UNCHANGED <<geoVars, ingestVars, besidesRunLogUpsert>>

\* ConnectionsDatabase.insertGeolocation (PostgreSQL), also reached through
\* its alias upsertGeolocation.
InsertGeolocationPostgres ==
    /\ backend = "postgres" /\ upsertsMade < MaxUpserts
    /\ upsertsMade' = upsertsMade + 1
    /\ \E ip \in StoreIps, geoData \in GeoDatas :
         /\ geoRows' = Upserted(GeoRow(ip, geoData.country,
                                       FieldOr(geoData, "country_code", NoText, NoText),
                                       FieldOr(geoData, "hostname", NoText, NoText),
                                       geoClock))
         /\ geolocations' = geolocations \cup {ip}
         /\ lastUpserted' = [lastUpserted EXCEPT
                               ![ip] = [geoData |-> geoData, at |-> geoClock, made |-> TRUE]]
    /\ UNCHANGED <<backend, connections, retentionConfig, nextId, now, retPc,
                   cutoffDate, results, sizeMB, insertedDuringRun>>
    /\ lastInsert' = NoInsert
    /\ runsInARow' = 0
    /\ UNCHANGED <<geoClock, runLog, cleanupErrors>>
    /\ UNCHANGED <<geoVars, ingestVars, besidesRunLogUpsert>>

\* A second passes on the database clock.
GeoClockTick ==
    /\ geoClock < MaxGeoTime
    /\ geoClock' = geoClock + 1
    /\ UNCHANGED <<geoRows, lastUpserted, upsertsMade>>
    /\ UNCHANGED <<storeVars, geoVars, ingestVars, besidesUpsert>>

-----------------------------------------------------------------------------
(* The aggregation query: GET /api/connections/history-fast and              *)
(* getAggregatedConnections of either back end.                              *)

MaxLimit == 3           \* the largest explicit `limit` query parameter
DefaultLimit == 1000    \* `limit = 1000` / `filters.limit || 1000`

Directions == {"inbound", "outbound"}

\* The addresses of the stored rows a query runs against.
QueryIps == { <<8, 8, 8, 8>>, <<99, 182, 4, 194>>, ZeroAddr }

\* No request has been served yet.
NoFilters == [ direction |-> NoDirection, limit |-> -1 ]

\* req.query.direction: absent, 'both', or a direction.
DirectionParams == {NoDirection, "both"} \cup Directions

\* parseInt(req.query.limit), the default when the parameter is absent.
LimitParams == (0..MaxLimit) \cup {DefaultLimit}

\* The route's filters object: direction && direction !== 'both' ? direction : null
RouteFilters(direction, limit) ==
    [ direction |-> IF direction = NoDirection \/ direction = "both"
                    THEN NoDirection ELSE direction,
      limit |-> limit ]

\* The WHERE clause without its direction test.
FilteredRowsAnyDirection(table, f, excludeZero) ==
    { r \in table : excludeZero => r.ip # ZeroAddr }

\* WHERE ... [AND c.direction = ?]; the PostgreSQL query adds c.ip != '0.0.0.0'.
FilteredRows(table, f, excludeZero) ==
    { r \in table :
        /\ excludeZero => r.ip # ZeroAddr
        /\ (f.direction # NoDirection /\ f.direction # "both")
              => r.direction = f.direction }

RECURSIVE MaxOf(_)
MaxOf(S) ==
    LET x == CHOOSE y \in S : TRUE
    IN  IF S = {x} THEN x
        ELSE LET m == MaxOf(S \ {x}) IN IF x > m THEN x ELSE m

\* GROUP BY ip: COUNT(*), the per-direction counts, MAX(timestamp).
Summary(ip, rows) ==
    LET mine == { r \in rows : r.ip = ip }
    IN  [ ip |-> ip,
          connectionCount |-> Cardinality(mine),
          inboundCount |-> Cardinality({ r \in mine : r.direction = "inbound" }),
          outboundCount |-> Cardinality({ r \in mine : r.direction = "outbound" }),
          lastSeen |-> MaxOf({ r.timestamp : r \in mine }) ]

GroupByIp(rows) == { Summary(ip, rows) : ip \in { r.ip : r \in rows } }

\* ORDER BY <key> DESC LIMIT n: every set of groups the statement may return
\* (ties in the key are not ordered).  The order inside the result is left out.
OrderDescLimit(groups, n, key) ==
    { S \in SUBSET groups :
        /\ Cardinality(S) = IF Cardinality(groups) < n THEN Cardinality(groups) ELSE n
        /\ \A s \in S : \A g \in groups \ S : s[key] >= g[key] }

\* ORDER BY <key> DESC: every order in which the statement may return the rows
\* S (rows equal in the key come in any order).
InOrderDesc(S, key) ==
    { seq \in [1..Cardinality(S) -> S] :
        /\ \A i, j \in DOMAIN seq : i # j => seq[i] # seq[j]
        /\ \A i, j \in DOMAIN seq : i < j => seq[i][key] >= seq[j][key] }

\* getAggregatedConnections (PostgreSQL): limit = filters.limit || 1000,
\* ORDER BY last_seen DESC LIMIT $n.
AggregatedPostgres(table, f) ==
    OrderDescLimit(GroupByIp(FilteredRows(table, f, TRUE)),
                   IF f.limit # 0 THEN f.limit ELSE DefaultLimit,
                   "lastSeen")

\* getAggregatedConnections (SQLite): ORDER BY connection_count DESC, and
\* LIMIT ? only `if (filters.limit)`.
AggregatedSqlite(table, f) ==
    IF f.limit # 0
    THEN OrderDescLimit(GroupByIp(FilteredRows(table, f, FALSE)), f.limit,
                        "connectionCount")
    ELSE { GroupByIp(FilteredRows(table, f, FALSE)) }

\* GET /api/connections/history-fast on the PostgreSQL back end.
HistoryFastPostgres ==
    /\ backend = "postgres"
    /\ \E direction \in DirectionParams, limit \in LimitParams :
         /\ filters' = RouteFilters(direction, limit)
         /\ aggregated' \in AggregatedPostgres(connections, filters')
         /\ returnedRows' \in InOrderDesc(aggregated', "lastSeen")
    /\ UNCHANGED <<storeVars, geoVars, ingestVars, besidesQueryResult>>

\* GET /api/connections/history-fast on the SQLite back end.
HistoryFastSqlite ==
    /\ backend = "sqlite"
    /\ \E direction \in DirectionParams, limit \in LimitParams :
         /\ filters' = RouteFilters(direction, limit)
         /\ aggregated' \in AggregatedSqlite(connections, filters')
         /\ returnedRows' \in InOrderDesc(aggregated', "connectionCount")
    /\ UNCHANGED <<storeVars, geoVars, ingestVars, besidesQueryResult>>

\* The rows a store may hold when a query arrives.
QueryConns ==
    [ ip : QueryIps, timestamp : 0..1, direction : Directions,
      internal_ip : {NoAddr}, external_port : {NoPort} ]

QueryTables ==
    UNION { { { Row(id, c[id]) : id \in S } : c \in [S -> QueryConns] } :
            S \in SUBSET (1..MaxRows) }

-----------------------------------------------------------------------------
(* Data reduction: ConnectionsDatabase.applyDataReduction (PostgreSQL class). *)

MaxReduceBatch == 2     \* records in one applyDataReduction call
MaxHours == 2           \* hours the reduction clock runs

BucketMinutes == 5      \* Math.floor(timestamp.getTime() / 300000)
ListenWindowHours == 1  \* (now - lastSeen) < 3600000

NoState == ""           \* `conn.state || null`: no state token

skipStates == {"TIME_WAIT", "CLOSE", "LAST_ACK", "FIN_WAIT", "SYN_RECV"}

\* new Set(['0.0.0.0', '8.8.8.8', '3.12.68.8', '15.197.187.26', '3.33.190.236'])
highVolumeIPs ==
    { ZeroAddr, <<8, 8, 8, 8>>, <<3, 12, 68, 8>>, <<15, 197, 187, 26>>,
      <<3, 33, 190, 236>> }

\* The records a call may receive: an allow-listed and an ordinary address,
\* timestamps (in minutes) inside one bucket and in the next, either direction,
\* no state token / a transient state / LISTEN.
ReduceConns ==
    [ ip : { <<8, 8, 8, 8>>, <<99, 182, 4, 194>> }, timestamp : {0, 1, BucketMinutes},
      direction : Directions, state : {NoState, "TIME_WAIT", "LISTEN"},
      internal_ip : {LanHost}, internal_port : {22},
      orig_packets : {1, 2}, orig_bytes : {10}, reply_packets : {1},
      reply_bytes : {20} ]

ReduceBatches == UNION { [1..n -> ReduceConns] : n \in 1..MaxReduceBatch }

\* `${conn.internal_ip}:${conn.internal_port}`
PortKey(conn) == <<conn.internal_ip, conn.internal_port>>

\* `${conn.ip}-${Math.floor(timestamp.getTime() / 300000)}`
BucketKey(conn) == <<conn.ip, conn.timestamp \div BucketMinutes>>

\* map.set(key, value)
MapSet(map, key, value) ==
    [ k \in DOMAIN map \cup {key} |-> IF k = key THEN value ELSE map[k] ]

\* existing.orig_packets += conn.orig_packets || 0; ... (the four counters)
AddCounters(existing, conn) ==
    [ existing EXCEPT !.orig_packets = @ + conn.orig_packets,
                      !.orig_bytes = @ + conn.orig_bytes,
                      !.reply_packets = @ + conn.reply_packets,
                      !.reply_bytes = @ + conn.reply_bytes ]

\* The body of `for (const conn of connections)`, from record i on.  acc holds
\* result, the Map aggregated (with its insertion order) and recentListeningPorts.
RECURSIVE ReduceLoop(_, _, _)
ReduceLoop(conns, i, acc) ==
    IF i > Len(conns)
    THEN acc
    ELSE
      LET conn == conns[i]
          listening == conn.direction = "inbound" /\ conn.state = "LISTEN"
          seenRecently ==
              /\ PortKey(conn) \in DOMAIN acc.recent
              /\ reduceNow - acc.recent[PortKey(conn)] < ListenWindowHours
          recent == IF listening /\ ~seenRecently
                    THEN MapSet(acc.recent, PortKey(conn), reduceNow)
                    ELSE acc.recent
          highVolume == conn.ip \in highVolumeIPs /\ conn.direction = "outbound"
      IN  IF conn.state # NoState /\ conn.state \in skipStates
          THEN ReduceLoop(conns, i + 1, acc)
          ELSE IF listening /\ seenRecently
          THEN ReduceLoop(conns, i + 1, acc)
          ELSE IF highVolume /\ BucketKey(conn) \in DOMAIN acc.aggregated
          THEN ReduceLoop(conns, i + 1,
                 [ acc EXCEPT !.recent = recent,
                              !.aggregated[BucketKey(conn)] = AddCounters(@, conn) ])
          ELSE IF highVolume
          THEN ReduceLoop(conns, i + 1,
                 [ result |-> Append(acc.result, conn),
                   aggregated |-> MapSet(acc.aggregated, BucketKey(conn), conn),
                   order |-> Append(acc.order, BucketKey(conn)),
                   recent |-> recent ])
          ELSE ReduceLoop(conns, i + 1,
                 [ acc EXCEPT !.recent = recent, !.result = Append(@, conn) ])

\* applyDataReduction(connections): the loop, then the aggregated values pushed
\* after the records already in result.
ApplyDataReductionResult(conns) ==
    LET acc == ReduceLoop(conns, 1,
                 [ result |-> <<>>, aggregated |-> <<>>, order |-> <<>>,
                   recent |-> recentListeningPorts ])
    IN  [ output |-> acc.result \o
                       [ j \in 1..Len(acc.order) |-> acc.aggregated[acc.order[j]] ],
          recent |-> acc.recent ]

applyDataReduction ==
    /\ reducePc = "idle"
    /\ \E conns \in ReduceBatches :
         LET r == ApplyDataReductionResult(conns)
         IN  /\ reduceInput' = conns
             /\ reduceOutput' = r.output
             /\ recentListeningPorts' = r.recent
    /\ reducePc' = "returned"
    /\ UNCHANGED <<reduceNow, passedOn>>
    /\ UNCHANGED <<storeVars, geoVars, ingestVars, besidesReduce>>

\* conn.direction === 'inbound' && conn.state === 'LISTEN'
Listening(conn) == conn.direction = "inbound" /\ conn.state = "LISTEN"

\* The localAddress:localPort pairs of the listening records of seq.
ListenKeys(seq) == { PortKey(seq[j]) : j \in { k \in DOMAIN seq : Listening(seq[k]) } }

\* The caller takes the returned records on.
ReduceReturn ==
    /\ reducePc = "returned"
    /\ reducePc' = "idle"
    /\ passedOn' = passedOn \cup { reduceOutput[j].ip : j \in DOMAIN reduceOutput }
    /\ reduceInput' = <<>>
    /\ reduceOutput' = <<>>
    /\ lastListenPass' =
          [ key \in DOMAIN lastListenPass \cup ListenKeys(reduceOutput) |->
              IF key \in ListenKeys(reduceOutput) THEN reduceNow ELSE lastListenPass[key] ]
    /\ UNCHANGED <<recentListeningPorts, reduceNow>>
    /\ UNCHANGED <<storeVars, geoVars, ingestVars, besidesReduceListen>>

\* setInterval(() => this.recentListeningPorts.clear(), 3600000)
ClearRecentListeningPorts ==
    /\ reducePc = "idle"
    /\ recentListeningPorts # <<>>
    /\ recentListeningPorts' = <<>>
    /\ UNCHANGED <<reducePc, reduceInput, reduceOutput, reduceNow, passedOn>>
    /\ UNCHANGED <<storeVars, geoVars, ingestVars, besidesReduce>>

\* An hour passes between two calls.
ReduceTick ==
    /\ reducePc = "idle" /\ reduceNow < MaxHours
    /\ reduceNow' = reduceNow + 1
    /\ UNCHANGED <<reducePc, reduceInput, reduceOutput, recentListeningPorts, passedOn>>
    /\ UNCHANGED <<storeVars, geoVars, ingestVars, besidesReduce>>

-----------------------------------------------------------------------------
(* One entry of a connection_tracking data file through loadConnectionData:  *)
(* extractIPsFromData, the connectionsForDB mapping, and                     *)
(* db.insertConnectionsAggregated.                                           *)

\* The entries collect_connection_tracking writes.
ConntrackEntries ==
    [ direction : Directions, external_ip : { <<8, 8, 8, 8>>, <<10, 0, 0, 5>> },
      internal_ip : {LanHost}, internal_port : {22}, external_port : {443},
      state : {NoState, "ESTABLISHED", "TIME_WAIT"},
      orig_packets : {0, 3}, orig_bytes : {10}, reply_packets : {0, 1},
      reply_bytes : {20} ]

NoCandidate ==
    [ direction |-> "inbound", external_ip |-> <<8, 8, 8, 8>>, internal_ip |-> LanHost,
      internal_port |-> 22, external_port |-> 443, state |-> NoState,
      orig_packets |-> 0, orig_bytes |-> 10, reply_packets |-> 0, reply_bytes |-> 20 ]

\* extractIPsFromData, case 'connection_tracking': the object pushed.
PushedConntrack(item) ==
    [ ip |-> item.external_ip,
      type |-> IF item.state # NoState THEN item.state ELSE "connection_tracking",
      direction |-> item.direction ]

\* loadConnectionData: allConnectionData.map(conn => ({ ... })), every column.
FullConnectionForDB(conn) ==
    [ ip |-> conn.ip,
      direction |-> FieldOr(conn, "direction", NoDirection, "inbound"),
      connection_type |-> conn.type,
      internal_ip |-> FieldOr(conn, "internal_ip", NoAddr, NoAddr),
      internal_port |-> FieldOr(conn, "internal_port", NoPort, NoPort),
      external_port |-> FieldOr(conn, "external_port", NoPort, NoPort),
      state |-> FieldOr(conn, "state", NoState, NoState),
      orig_packets |-> FieldOr(conn, "orig_packets", 0, 0),
      orig_bytes |-> FieldOr(conn, "orig_bytes", 0, 0),
      reply_packets |-> FieldOr(conn, "reply_packets", 0, 0),
      reply_bytes |-> FieldOr(conn, "reply_bytes", 0, 0) ]

\* JSON.parse of the data file: one entry.
ReadConntrackEntry ==
    /\ normPc = "idle"
    /\ candidate' \in ConntrackEntries
    /\ normPc' = "read"
    /\ stagesRun' = <<>>
    /\ UNCHANGED <<extractedConn, mappedConn, insertedRows>>
    /\ UNCHANGED <<storeVars, geoVars, ingestVars, besidesNorm>>

\* extractIPsFromData(parsedData, 'connection_tracking') for the entry.
ExtractConntrackEntry ==
    /\ normPc = "read"
    /\ extractedConn' = IF isExternalIP(candidate.external_ip)
                        THEN { PushedConntrack(candidate) } ELSE {}
    /\ normPc' = "extracted"
    /\ stagesRun' = Append(stagesRun, "extract")
    /\ UNCHANGED <<candidate, mappedConn, insertedRows>>
    /\ UNCHANGED <<storeVars, geoVars, ingestVars, besidesNorm>>

\* if (db && db.isInitialized && allConnectionData.length > 0):
\* const connectionsForDB = allConnectionData.map(...)
MapConntrackEntry ==
    /\ normPc = "extracted"
    /\ extractedConn # {}
    /\ mappedConn' = { FullConnectionForDB(conn) : conn \in extractedConn }
    /\ normPc' = "mapped"
    /\ stagesRun' = Append(stagesRun, "map")
    /\ UNCHANGED <<candidate, extractedConn, insertedRows>>
    /\ UNCHANGED <<storeVars, geoVars, ingestVars, besidesNorm>>

\* await db.insertConnectionsAggregated(connectionsForDB), which is
\* `return await this.insertConnections(connections)`: the records are inserted
\* as they were handed over.
InsertAggregatedEntry ==
    /\ normPc = "mapped"
    /\ insertedRows' = mappedConn
    /\ normPc' = "inserted"
    /\ stagesRun' = Append(stagesRun, "insert")
    /\ UNCHANGED <<candidate, extractedConn, mappedConn>>
    /\ UNCHANGED <<storeVars, geoVars, ingestVars, besidesNorm>>

\* The next entry, in the next cycle.
NextConntrackEntry ==
    /\ \/ normPc = "inserted"
       \/ normPc = "extracted" /\ extractedConn = {}
    /\ normPc' = "idle"
    /\ extractedConn' = {} /\ mappedConn' = {} /\ insertedRows' = {}
    /\ UNCHANGED <<candidate, stagesRun>>
    /\ UNCHANGED <<storeVars, geoVars, ingestVars, besidesNorm>>

-----------------------------------------------------------------------------
(* PUT /api/retention/config.                                                *)

MaxPuts == 2        \* requests in one behaviour

\* A JSON value of the request body: absent, null, or a number.
NoValue == [type |-> "undefined", n |-> 0]
NullValue == [type |-> "null", n |-> 0]
NumberValue(n) == [type |-> "number", n |-> n]

\* A flag of the request body: absent, or a boolean.
NoFlag == [type |-> "undefined", b |-> FALSE]
FlagValue(b) == [type |-> "boolean", b |-> b]

BodyLimits == {NoValue, NullValue} \cup { NumberValue(n) : n \in {-1, 0, 1, 3} }
BodyFlags == {NoFlag, FlagValue(TRUE), FlagValue(FALSE)}

RequestBodies ==
    [ maxSizeMB : BodyLimits, maxAgeDays : BodyLimits,
      enableSizeLimit : BodyFlags, enableTimeLimit : BodyFlags ]

NoBody ==
    [ maxSizeMB |-> NoValue, maxAgeDays |-> NoValue,
      enableSizeLimit |-> NoFlag, enableTimeLimit |-> NoFlag ]

\* `value && value > 0`, read as `value` alone (any non-zero number passes).
AcceptedLimitTruthy(value) == value.type = "number" /\ value.n # 0

\* `value && value > 0`
AcceptedLimit(value) == value.type = "number" /\ value.n # 0 /\ value.n > 0

\* app.put('/api/retention/config'): the four assignments and the response.
PutRetentionConfig ==
    /\ putsMade < MaxPuts
    /\ putsMade' = putsMade + 1
    /\ configBefore' = retentionConfig
    /\ \E body \in RequestBodies :
         /\ putBody' = body
         /\ retentionConfig' =
              [ maxSizeMB |-> IF AcceptedLimit(body.maxSizeMB)
                              THEN body.maxSizeMB.n ELSE retentionConfig.maxSizeMB,
                maxAgeDays |-> IF AcceptedLimit(body.maxAgeDays)
                               THEN body.maxAgeDays.n ELSE retentionConfig.maxAgeDays,
                cleanupBatchSize |-> retentionConfig.cleanupBatchSize,
                enableSizeLimit |-> IF body.enableSizeLimit.type # "undefined"
                                    THEN body.enableSizeLimit.b
                                    ELSE retentionConfig.enableSizeLimit,
                enableTimeLimit |-> IF body.enableTimeLimit.type # "undefined"
                                    THEN body.enableTimeLimit.b
                                    ELSE retentionConfig.enableTimeLimit ]
    /\ UNCHANGED <<backend, connections, geolocations, nextId, now, retPc, cutoffDate,
                   results, sizeMB, insertedDuringRun, lastInsert>>
    /\ UNCHANGED <<geoVars, ingestVars, besidesConfig>>

-----------------------------------------------------------------------------
(* cleanupByAge over the timestamps as they are stored: the collector writes *)
(* `date -Iseconds` (local time with the host's offset), the server inserts  *)
(* the text unchanged, and the cutoff is `cutoffDate.toISOString()` (UTC).   *)

MaxAgeClock == 4    \* half days the clock runs
DayLength == 2      \* clock units in one day

\* The offsets `date -Iseconds` may print: west of UTC, UTC, east of UTC.
ZoneOffsets == {-1, 0, 1}

\* The row stored for an entry the collector wrote at instant t: its timestamp
\* column holds the text, which orders by its local-time digits t + offset.
StoredAt(t, offset) == [ instant |-> t, timestamp |-> t + offset ]

\* collect_connection_tracking writes an entry and the next cycle inserts it.
CollectAndInsert ==
    /\ ageRows' = ageRows \cup { StoredAt(ageNow, hostOffset) }
    /\ UNCHANGED <<ageNow, hostOffset>>
    /\ UNCHANGED <<storeVars, geoVars, ingestVars, besidesAge>>

\* Half a day passes.
AgeTick ==
    /\ ageNow < MaxAgeClock
    /\ ageNow' = ageNow + 1
    /\ UNCHANGED <<ageRows, hostOffset>>
    /\ UNCHANGED <<storeVars, geoVars, ingestVars, besidesAge>>

\* cleanupByAge (SQLite): `WHERE timestamp < ?` compares the stored text with
\* cutoffISO as text; at most cleanupBatchSize rows, the first in text order.
CleanupByAgeText ==
    /\ backend = "sqlite"
    /\ IF ~retentionConfig.enableTimeLimit
       THEN UNCHANGED ageRows
       ELSE \E S \in OldestBatches(
                        Expired(ageRows, ageNow - retentionConfig.maxAgeDays * DayLength),
                        retentionConfig.cleanupBatchSize) :
              ageRows' = ageRows \ S
    /\ UNCHANGED <<ageNow, hostOffset>>
    /\ UNCHANGED <<storeVars, geoVars, ingestVars, besidesAge>>

\* cleanupByAge (PostgreSQL): `WHERE timestamp < $1`, the column taken to be a
\* timestamp with time zone, which compares instants.
CleanupByAgeInstant ==
    /\ backend = "postgres"
    /\ IF ~retentionConfig.enableTimeLimit
       THEN UNCHANGED ageRows
       ELSE ageRows' = { r \in ageRows :
                           ~(r.instant < ageNow - retentionConfig.maxAgeDays * DayLength) }
    /\ UNCHANGED <<ageNow, hostOffset>>
    /\ UNCHANGED <<storeVars, geoVars, ingestVars, besidesAge>>

-----------------------------------------------------------------------------
(* Job scheduling: the cron triggers, POST /api/refresh and                  *)
(* POST /api/retention/run.  Every trigger starts a run of its own; a run    *)
(* slot holds one run from its start to its end.                             *)

MaxRuns == 3            \* runs of one kind that may be in progress at once

RunSlots == 1..MaxRuns

\* A free slot.
NoRun == [ pc |-> "free", trigger |-> "" ]

FreeSlots(runs) == { slot \in RunSlots : runs[slot].pc = "free" }

\* The run takes the lowest free slot.
StartRun(runs, pc, trigger) ==
    LET slot == CHOOSE x \in FreeSlots(runs) : \A other \in FreeSlots(runs) : x <= other
    IN  [runs EXCEPT ![slot] = [ pc |-> pc, trigger |-> trigger ]]

\* cron.schedule('*/2 * * * *', () => { runDataCollection(); }): the run is
\* entered and suspends at `await execAsync(...)`.
CronCollection ==
    /\ FreeSlots(ingestionRuns) # {}
    /\ ingestionRuns' = StartRun(ingestionRuns, "exec", "cron")
    /\ UNCHANGED retentionRuns
    /\ UNCHANGED <<storeVars, geoVars, ingestVars, besidesJobs>>

\* app.post('/api/refresh'): await runDataCollection()
PostRefresh ==
    /\ FreeSlots(ingestionRuns) # {}
    /\ ingestionRuns' = StartRun(ingestionRuns, "exec", "refresh")
    /\ UNCHANGED retentionRuns
    /\ UNCHANGED <<storeVars, geoVars, ingestVars, besidesJobs>>

\* The collector script has exited (or failed: the catch logs and the run
\* ends); on success setTimeout(loadConnectionData, 3000) is armed.
RunDataCollectionResume ==
    /\ \E slot \in RunSlots, failed \in BOOLEAN :
         /\ ingestionRuns[slot].pc = "exec"
         /\ ingestionRuns' = [ingestionRuns EXCEPT
                                ![slot] = IF failed THEN NoRun
                                          ELSE [@ EXCEPT !.pc = "timer"]]
    /\ UNCHANGED retentionRuns
    /\ UNCHANGED <<storeVars, geoVars, ingestVars, besidesJobs>>

\* The timer fires: loadConnectionData() starts and suspends at its first await.
LoadConnectionDataStart ==
    /\ \E slot \in RunSlots :
         /\ ingestionRuns[slot].pc = "timer"
         /\ ingestionRuns' = [ingestionRuns EXCEPT ![slot].pc = "load"]
    /\ UNCHANGED retentionRuns
    /\ UNCHANGED <<storeVars, geoVars, ingestVars, besidesJobs>>

\* loadConnectionData() returns.
LoadConnectionDataEnd ==
    /\ \E slot \in RunSlots :
         /\ ingestionRuns[slot].pc = "load"
         /\ ingestionRuns' = [ingestionRuns EXCEPT ![slot] = NoRun]
    /\ UNCHANGED retentionRuns
    /\ UNCHANGED <<storeVars, geoVars, ingestVars, besidesJobs>>

\* cron.schedule('*/30 * * * *', async () => { await db.runRetentionPolicies(); })
CronRetention ==
    /\ FreeSlots(retentionRuns) # {}
    /\ retentionRuns' = StartRun(retentionRuns, "running", "cron")
    /\ UNCHANGED ingestionRuns
    /\ UNCHANGED <<storeVars, geoVars, ingestVars, besidesJobs>>

\* app.post('/api/retention/run'): await db.runRetentionPolicies()
PostRetentionRun ==
    /\ FreeSlots(retentionRuns) # {}
    /\ retentionRuns' = StartRun(retentionRuns, "running", "manual")
    /\ UNCHANGED ingestionRuns
    /\ UNCHANGED <<storeVars, geoVars, ingestVars, besidesJobs>>

\* runRetentionPolicies() returns or throws.
RetentionRunEnd ==
    /\ \E slot \in RunSlots :
         /\ retentionRuns[slot].pc = "running"
         /\ retentionRuns' = [retentionRuns EXCEPT ![slot] = NoRun]
    /\ UNCHANGED ingestionRuns
    /\ UNCHANGED <<storeVars, geoVars, ingestVars, besidesJobs>>

-----------------------------------------------------------------------------
(* Shutdown: saveGeolocationCache, the 5-minute cron save and the SIGINT /   *)
(* SIGTERM handlers.  fs.writeFile opens the file with flag 'w' (which       *)
(* truncates it), writes the data from offset 0 and closes; calls in flight  *)
(* at the same time each hold their own descriptor.                          *)

MaxSaves == 2       \* saveGeolocationCache calls in flight at once

\* The length of the JSON text of a cache: a location entry is longer than a
\* failure marker.
EntryBytes(entry) == IF entry = "location" THEN 2 ELSE 1

RECURSIVE BytesOf(_, _)
BytesOf(cache, keys) ==
    IF keys = {} THEN 0
    ELSE LET ip == CHOOSE k \in keys : TRUE
         IN  EntryBytes(cache[ip]) + BytesOf(cache, keys \ {ip})

FileBytes(cache) == BytesOf(cache, DOMAIN cache)

\* What the file reads as after `data` was written from offset 0 over `onDisk`:
\* the data, unless a longer text another descriptor wrote is left behind it
\* (JSON.parse throws and loadGeolocationCache starts with an empty Map).
WrittenOver(data, onDisk) ==
    IF FileBytes(data) >= FileBytes(onDisk) THEN data ELSE <<>>

\* saveGeolocationCache, up to `await fs.writeFile(...)`: the entries are
\* copied (Array.from, JSON.stringify) and the write is handed to the pool.
StartSave(caller) ==
    [ caller |-> caller, data |-> geolocationCache, pc |-> "open" ]

\* cron.schedule('*/5 * * * *', () => { saveGeolocationCache(); })
CronSaveCache ==
    /\ process = "running"
    /\ Cardinality(saves) < MaxSaves
    /\ saves' = saves \cup { StartSave("cron") }
    /\ UNCHANGED <<process, cacheFile, atSignal, writeErrors>>
    /\ UNCHANGED <<storeVars, geoVars, ingestVars, besidesFlush>>

\* process.on('SIGINT' / 'SIGTERM'), up to `await saveGeolocationCache()`.
ShutdownSignal ==
    /\ process = "running"
    /\ process' = "stopping"
    /\ atSignal' = geolocationCache
    /\ saves' = saves \cup { StartSave("signal") }
    /\ UNCHANGED <<cacheFile, writeErrors>>
    /\ UNCHANGED <<storeVars, geoVars, ingestVars, besidesFlush>>

\* How a save ends: the cron callback drops the promise, the signal handler
\* awaits it.  An error is caught and logged inside saveGeolocationCache.
Settled(save) ==
    IF save.caller = "signal" THEN { [save EXCEPT !.pc = "settled"] } ELSE {}

\* fs.writeFile: open(path, 'w') truncates the file, or fails.
WriteFileOpen ==
    /\ process # "exited"
    /\ \E save \in saves, failed \in (IF writeErrors THEN BOOLEAN ELSE {FALSE}) :
         /\ save.pc = "open"
         /\ IF failed
            THEN /\ saves' = (saves \ {save}) \cup Settled(save)
                 /\ UNCHANGED cacheFile
            ELSE /\ saves' = (saves \ {save}) \cup { [save EXCEPT !.pc = "write"] }
                 /\ cacheFile' = <<>>
    /\ UNCHANGED <<process, atSignal, writeErrors>>
    /\ UNCHANGED <<storeVars, geoVars, ingestVars, besidesFlush>>

\* fs.writeFile: the data is written and the descriptor closed, or the write
\* fails (ENOSPC) and leaves the file as it is.
WriteFileWrite ==
    /\ process # "exited"
    /\ \E save \in saves, failed \in (IF writeErrors THEN BOOLEAN ELSE {FALSE}) :
         /\ save.pc = "write"
         /\ saves' = (saves \ {save}) \cup Settled(save)
         /\ cacheFile' = IF failed THEN cacheFile
                         ELSE WrittenOver(save.data, cacheFile)
    /\ UNCHANGED <<process, atSignal, writeErrors>>
    /\ UNCHANGED <<storeVars, geoVars, ingestVars, besidesFlush>>

\* The handler resumes after `await saveGeolocationCache()`: process.exit(0).
\* Writes still in flight are abandoned.
ProcessExit ==
    /\ process = "stopping"
    /\ \E save \in saves : save.caller = "signal" /\ save.pc = "settled"
    /\ process' = "exited"
    /\ saves' = {}
    /\ UNCHANGED <<cacheFile, atSignal, writeErrors>>
    /\ UNCHANGED <<storeVars, geoVars, ingestVars, besidesFlush>>

-----------------------------------------------------------------------------
(* The enrichment loop of loadConnectionData: the collected records are      *)
(* grouped by external address and the first addresses of Object.keys        *)
(* (insertion order) are passed to getIPLocation one after the other.        *)

EnrichCap == 1      \* the 50 of `Math.min(uniqueIPs.length, 50)`, scaled

\* The loop bound read without the cap: uniqueIPs.length
EnrichLimitUncapped(n) == n

\* Math.min(uniqueIPs.length, 50)
EnrichLimit(n) == IF n < EnrichCap THEN n ELSE EnrichCap

\* What the data files may hold: each address once, in the order of its first
\* record.
CollectedInputs ==
    { seq \in UNION { [1..n -> GeoIps] : n \in 1..Cardinality(GeoIps) } :
        \A i, j \in DOMAIN seq : i # j => seq[i] # seq[j] }

\* loadConnectionData up to the loop: ipGroups, uniqueIPs = Object.keys(ipGroups).
EnrichmentLoopStart ==
    /\ cyclePc = "idle"
    /\ cyclePc' = "loop"
    /\ uniqueIPs' = collected
    /\ cycleIndex' = 0
    /\ cycleLookups' = 0
    /\ enriched' = {}
    /\ UNCHANGED <<collected, leftOut>>
    /\ UNCHANGED <<storeVars, geoVars, ingestVars, besidesCycle>>

\* One turn of the loop up to the first suspension of getIPLocation(ip): a
\* cached entry is returned at once (a cached location is upserted into the
\* geolocations table), otherwise the request is sent.
EnrichmentLoopCall ==
    /\ cyclePc = "loop"
    /\ cycleIndex < EnrichLimit(Len(uniqueIPs))
    /\ LET ip == uniqueIPs[cycleIndex + 1]
       IN  /\ enriched' = enriched \cup {ip}
           /\ IF CacheHas(ip)
              THEN /\ cacheHits' = [cacheHits EXCEPT ![ip] = @ \cup {geolocationCache[ip]}]
                   /\ geolocations' = IF geolocationCache[ip] = "location"
                                      THEN geolocations \cup {ip} ELSE geolocations
                   /\ cycleIndex' = cycleIndex + 1
                   /\ UNCHANGED <<inflight, lookups, cycleLookups, cyclePc>>
              ELSE /\ TotalLookups < MaxLookups
                   /\ lookups' = [lookups EXCEPT ![ip] = @ + 1]
                   /\ inflight' = [inflight EXCEPT ![ip] = @ + 1]
                   /\ cycleLookups' = cycleLookups + 1
                   /\ cyclePc' = "awaiting"
                   /\ UNCHANGED <<cacheHits, geolocations, cycleIndex>>
    /\ UNCHANGED <<geolocationCache, outcomes>>
    /\ UNCHANGED <<collected, uniqueIPs, leftOut>>
    /\ UNCHANGED <<backend, connections, retentionConfig, nextId, now, retPc,
                   cutoffDate, results, sizeMB, insertedDuringRun, lastInsert>>
    /\ UNCHANGED <<ingestVars, besidesCycle>>

\* The turn resumed with the service's answer: see GetIPLocationResume; a
\* location is upserted into the geolocations table.
EnrichmentLoopResume ==
    /\ cyclePc = "awaiting"
    /\ \E outcome \in LookupOutcomes :
         LET ip == uniqueIPs[cycleIndex + 1]
         IN  /\ inflight' = [inflight EXCEPT ![ip] = @ - 1]
             /\ outcomes' = [outcomes EXCEPT ![ip] = @ \cup {outcome}]
             /\ geolocationCache' =
                  CASE outcome = "success" -> CacheSet(ip, "location")
                    [] outcome = "throw" -> CacheSet(ip, "failure")
                    [] OTHER -> geolocationCache
             /\ geolocations' = IF outcome = "success"
                                THEN geolocations \cup {ip} ELSE geolocations
    /\ cycleIndex' = cycleIndex + 1
    /\ cyclePc' = "loop"
    /\ UNCHANGED <<lookups, cacheHits>>
    /\ UNCHANGED <<collected, uniqueIPs, cycleLookups, enriched, leftOut>>
    /\ UNCHANGED <<backend, connections, retentionConfig, nextId, now, retPc,
                   cutoffDate, results, sizeMB, insertedDuringRun, lastInsert>>
    /\ UNCHANGED <<ingestVars, besidesCycle>>

\* The loop ends at i = Math.min(uniqueIPs.length, 50); the cycle returns.
EnrichmentLoopEnd ==
    /\ cyclePc = "loop"
    /\ cycleIndex >= EnrichLimit(Len(uniqueIPs))
    /\ cyclePc' = "idle"
    /\ leftOut' = leftOut \cup
                    { uniqueIPs[k] : k \in (cycleIndex + 1)..Len(uniqueIPs) }
    /\ UNCHANGED <<collected, uniqueIPs, cycleIndex, cycleLookups, enriched>>
    /\ UNCHANGED <<storeVars, geoVars, ingestVars, besidesCycle>>

-----------------------------------------------------------------------------
(* Egress address resolution: getWanIP, called by isExternalIP for every     *)
(* address it classifies.                                                    *)

MaxWanCalls == 2        \* isExternalIP calls in flight at once
MaxWanTime == 2         \* how far the clock runs, in cache durations
WanIpCacheDuration == 1 \* WAN_IP_CACHE_DURATION (5 minutes), the unit of the clock

WanSlots == 1..MaxWanCalls

\* What dns.lookup(CONFIG.wanHostname) may answer: the egress address, or the
\* one the dynamic name pointed at before.
WanAddresses == { EgressAddr, <<104, 0, 40, 170>> }

\* The addresses handed to isExternalIP.
ClassifiedIps == { EgressAddr, <<8, 8, 8, 8>> }

NoWanCall ==
    [ pc |-> "idle", ip |-> NoAddr, startedAt |-> 0, failed |-> FALSE,
      wanIP |-> NoAddr, lastKnown |-> NoAddr, cacheAfter |-> NoAddr,
      verdict |-> FALSE, lookedUp |-> FALSE ]

\* `wanIPCache && (now - wanIPCacheTime) < WAN_IP_CACHE_DURATION`, read as never true.
CacheNeverValid(cache, cachedAt, t) == FALSE

\* wanIPCache && (now - wanIPCacheTime) < WAN_IP_CACHE_DURATION
CacheValid(cache, cachedAt, t) == cache # NoAddr /\ (t - cachedAt) < WanIpCacheDuration

\* The catch block of getWanIP read as `return null`.
FailureReturnNull(cache) == NoAddr

\* catch (error) { ...; return wanIPCache; }
FailureReturn(cache) == cache

\* isExternalIP(ip) up to the first suspension of getWanIP: a cache entry
\* younger than WAN_IP_CACHE_DURATION is returned and the address classified
\* at once; otherwise dns.lookup is awaited.
GetWanIPCall ==
    /\ \E slot \in WanSlots, ip \in ClassifiedIps :
         /\ wanCalls[slot].pc # "lookup"
         /\ wanCalls' = [wanCalls EXCEPT ![slot] =
              IF CacheValid(wanIPCache, wanIPCacheTime, wanNow)
              THEN [ NoWanCall EXCEPT !.pc = "done", !.ip = ip, !.startedAt = wanNow,
                                      !.wanIP = wanIPCache, !.lastKnown = lastResolved,
                                      !.cacheAfter = wanIPCache,
                                      !.verdict = IsExternalGiven(ip, wanIPCache) ]
              ELSE [ NoWanCall EXCEPT !.pc = "lookup", !.ip = ip, !.startedAt = wanNow,
                                      !.lookedUp = TRUE ]]
    /\ UNCHANGED <<wanNow, wanIPCacheTime, lastResolved, wanIPCache>>
    /\ UNCHANGED <<ingPc, source, line, WAN_IP, emitted, ips, connectionsForDB>>
    /\ UNCHANGED <<storeVars, geoVars, besidesWan>>

\* dns.lookup resolves: the address and the time the call started are cached,
\* the address is returned and isExternalIP finishes.
GetWanIPResolved ==
    /\ \E slot \in WanSlots, address \in WanAddresses :
         /\ wanCalls[slot].pc = "lookup"
         /\ wanIPCache' = address
         /\ wanIPCacheTime' = wanCalls[slot].startedAt
         /\ lastResolved' = address
         /\ wanCalls' = [wanCalls EXCEPT ![slot] =
              [ @ EXCEPT !.pc = "done", !.wanIP = address, !.lastKnown = address,
                         !.cacheAfter = address,
                         !.verdict = IsExternalGiven(wanCalls[slot].ip, address) ]]
    /\ wanResolvedAt' = wanNow
    /\ UNCHANGED wanNow
    /\ UNCHANGED <<ingPc, source, line, WAN_IP, emitted, ips, connectionsForDB>>
    /\ UNCHANGED <<storeVars, geoVars, besidesWanTtl>>

\* dns.lookup rejects: the error is logged, the cached value is returned as
\* it is and isExternalIP finishes.
GetWanIPFailed ==
    /\ \E slot \in WanSlots :
         /\ wanCalls[slot].pc = "lookup"
         /\ wanCalls' = [wanCalls EXCEPT ![slot] =
              [ @ EXCEPT !.pc = "done", !.failed = TRUE,
                         !.wanIP = FailureReturn(wanIPCache),
                         !.lastKnown = lastResolved,
                         !.cacheAfter = wanIPCache,
                         !.verdict = IsExternalGiven(wanCalls[slot].ip, FailureReturn(wanIPCache)) ]]
    /\ UNCHANGED <<wanNow, wanIPCacheTime, lastResolved, wanIPCache>>
    /\ UNCHANGED <<ingPc, source, line, WAN_IP, emitted, ips, connectionsForDB>>
    /\ UNCHANGED <<storeVars, geoVars, besidesWan>>

\* One cache duration passes.
WanTick ==
    /\ wanNow < MaxWanTime
    /\ wanNow' = wanNow + 1
    /\ UNCHANGED <<wanIPCacheTime, wanCalls, lastResolved, wanIPCache>>
    /\ UNCHANGED <<ingPc, source, line, WAN_IP, emitted, ips, connectionsForDB>>
    /\ UNCHANGED <<storeVars, geoVars, besidesWan>>

-----------------------------------------------------------------------------
(* Acquisition: `collect_wan_connections.sh --all` under `set -euo pipefail`, *)
(* run by runDataCollection through execAsync.                               *)

MaxInvocations == 3     \* invocations of the collector script in one behaviour

NoSource == ""

\* collect_all: the collector functions in the order they are called, each
\* named by the prefix of the data file it writes.
CollectAllOrder ==
    << "connections", "current_connections", "scans_probes",
       "realtime_connections", "vpn_connections", "outbound_connections",
       "connection_tracking", "threat_intel", "enhanced_firemain" >>

\* What the remote command of a source may do: print lines, print no matching
\* line, or fail (ssh cannot connect, the remote command exits non-zero).
RemoteOutcomes == {"lines", "no_lines", "ssh_error"}

\* The sources whose ssh pipeline ends in a grep, which exits 1 when no line
\* matches (the others end in tail, awk or cat).
EndsInGrep ==
    { "connections", "current_connections", "realtime_connections",
      "outbound_connections" }

\* Whether the pipeline of the source exits non-zero (pipefail).
PipelineFails(src, outcome) ==
    \/ outcome = "ssh_error"
    \/ outcome = "no_lines" /\ src \in EndsInGrep

\* loadConnectionData: the file name prefixes of fileTypes.
FileTypes ==
    { "connections", "current_connections", "scans_probes",
      "realtime_connections", "vpn_connections", "outbound_connections",
      "connection_tracking" }

\* runDataCollection up to `await execAsync(`${CONFIG.collectorScript} --all`)`.
RunDataCollectionExec ==
    /\ scriptStatus \in {"idle", "settled"}
    /\ invocations < MaxInvocations
    /\ invocations' = invocations + 1
    /\ scriptStatus' = "running"
    /\ collectStep' = 1
    /\ collectedNow' = {}
    /\ failedSource' = NoSource
    /\ failedWith' = "lines"
    /\ ingestedNow' = {}
    /\ UNCHANGED <<storeVars, geoVars, ingestVars, besidesCollect>>

\* collect_all calls the next collector function: its data file is written, or
\* its pipeline exits non-zero and `set -e` ends the script there.
CollectSource ==
    /\ scriptStatus = "running"
    /\ collectStep <= Len(CollectAllOrder)
    /\ \E outcome \in RemoteOutcomes :
         IF PipelineFails(CollectAllOrder[collectStep], outcome)
         THEN /\ scriptStatus' = "failed"
              /\ failedSource' = CollectAllOrder[collectStep]
              /\ failedWith' = outcome
              /\ UNCHANGED <<collectStep, collectedNow>>
         ELSE /\ collectedNow' = collectedNow \cup { CollectAllOrder[collectStep] }
              /\ collectStep' = collectStep + 1
              /\ UNCHANGED <<scriptStatus, failedSource, failedWith>>
    /\ UNCHANGED <<ingestedNow, invocations>>
    /\ UNCHANGED <<storeVars, geoVars, ingestVars, besidesCollect>>

\* collect_all returns after its last collector function; the script exits 0.
CollectAllDone ==
    /\ scriptStatus = "running"
    /\ collectStep > Len(CollectAllOrder)
    /\ scriptStatus' = "ok"
    /\ UNCHANGED <<collectStep, collectedNow, failedSource, failedWith, ingestedNow,
                   invocations>>
    /\ UNCHANGED <<storeVars, geoVars, ingestVars, besidesCollect>>

\* runDataCollection after execAsync resolved: setTimeout(loadConnectionData,
\* 3000), which reads the data files of every type in fileTypes.
RunDataCollectionLoad ==
    /\ scriptStatus = "ok"
    /\ scriptStatus' = "settled"
    /\ ingestedNow' = collectedNow \cap FileTypes
    /\ UNCHANGED <<collectStep, collectedNow, failedSource, failedWith, invocations>>
    /\ UNCHANGED <<storeVars, geoVars, ingestVars, besidesCollect>>

\* runDataCollection after execAsync rejected (non-zero exit): the error is
\* logged; loadConnectionData is not scheduled.
RunDataCollectionCatch ==
    /\ scriptStatus = "failed"
    /\ scriptStatus' = "settled"
    /\ UNCHANGED <<collectStep, collectedNow, failedSource, failedWith, ingestedNow,
                   invocations>>
    /\ UNCHANGED <<storeVars, geoVars, ingestVars, besidesCollect>>

-----------------------------------------------------------------------------
(* Initial states and specifications.                                        *)

\* new ConnectionsDatabase({ maxSizeMB, maxAgeDays, cleanupBatchSize,
\* enableSizeLimit: true, enableTimeLimit: true }), in the scaled units above.
DefaultRetentionConfig ==
    [ maxSizeMB |-> DefaultMaxSizeMB, maxAgeDays |-> DefaultMaxAgeDays,
      cleanupBatchSize |-> DefaultCleanupBatchSize,
      enableSizeLimit |-> TRUE, enableTimeLimit |-> TRUE ]

\* The database of either back end has been initialized and is empty; the cache
\* is `new Map()`; no telemetry line is in the pipeline.
StoreInit ==
    /\ backend \in Backends
    /\ connections = {}
    /\ geolocations = {}
    /\ retentionConfig = DefaultRetentionConfig
    /\ nextId = 1
    /\ now = 0
    /\ retPc = "idle"
    /\ cutoffDate = 0
    /\ results = [ aged |-> 0, sized |-> 0, geolocations |-> 0 ]
    /\ sizeMB = 0
    /\ insertedDuringRun = FALSE
    /\ lastInsert = NoInsert
    /\ geolocationCache = <<>>
    /\ inflight = [ ip \in GeoIps |-> 0 ]
    /\ lookups = [ ip \in GeoIps |-> 0 ]
    /\ outcomes = [ ip \in GeoIps |-> {} ]
    /\ cacheHits = [ ip \in GeoIps |-> {} ]
    /\ ingPc = "raw"
    /\ source = "connections"
    /\ line = <<NoAddr, NoAddr>>
    /\ WAN_IP = NoAddr
    /\ wanIPCache = NoAddr
    /\ emitted = {}
    /\ ips = {}
    /\ connectionsForDB = {}
    /\ filters = NoFilters
    /\ aggregated = {}
    /\ reducePc = "idle"
    /\ reduceInput = <<>>
    /\ reduceOutput = <<>>
    /\ recentListeningPorts = <<>>
    /\ reduceNow = 1
    /\ passedOn = {}
    /\ ingestionRuns = [ slot \in RunSlots |-> NoRun ]
    /\ retentionRuns = [ slot \in RunSlots |-> NoRun ]
    /\ statementErrors = FALSE
    /\ idReuse = FALSE
    /\ process = "running"
    /\ cacheFile = <<>>
    /\ saves = {}
    /\ atSignal = <<>>
    /\ writeErrors = FALSE
    /\ cyclePc = "idle"
    /\ collected = <<>>
    /\ uniqueIPs = <<>>
    /\ cycleIndex = 0
    /\ cycleLookups = 0
    /\ enriched = {}
    /\ leftOut = {}
    /\ wanNow = 0
    /\ wanIPCacheTime = 0
    /\ wanCalls = [ slot \in WanSlots |-> NoWanCall ]
    /\ lastResolved = NoAddr
    /\ runLog = NoRunLog
    /\ cleanupErrors = FALSE
    /\ runsInARow = 0
    /\ scriptStatus = "idle"
    /\ collectStep = 0
    /\ collectedNow = {}
    /\ failedSource = NoSource
    /\ failedWith = "lines"
    /\ ingestedNow = {}
    /\ invocations = 0
    /\ parsedData = <<>>
    /\ extractType = "connections"
    /\ extractPc = "idle"
    /\ extractedIPs = <<>>
    /\ apiPc = "idle"
    /\ apiParam = <<>>
    /\ apiStatus = 0
    /\ hostnameCache = <<>>
    /\ apiLookups = {}
    /\ requestsMade = 0
    /\ geoRows = {}
    /\ geoClock = 0
    /\ lastUpserted = [ ip \in StoreIps |-> NoUpsert ]
    /\ upsertsMade = 0
    /\ returnedRows = <<>>
    /\ persisted = {}
    /\ lastListenPass = <<>>
    /\ normPc = "idle"
    /\ candidate = NoCandidate
    /\ extractedConn = {}
    /\ mappedConn = {}
    /\ insertedRows = {}
    /\ stagesRun = <<>>
    /\ reverseCompleted = {}
    /\ putBody = NoBody
    /\ configBefore = DefaultRetentionConfig
    /\ putsMade = 0
    /\ ageRows = {}
    /\ ageNow = 0
    /\ hostOffset = 0
    /\ wanResolvedAt = 0
    /\ lastEndpoint = "none"

\* As StoreInit, on a host of any zone, the time limit enabled or not
\* (the `enableTimeLimit` option of the constructor).
AgeInit ==
    /\ backend \in Backends
    /\ connections = {}
    /\ geolocations = {}
    /\ retentionConfig \in { [DefaultRetentionConfig EXCEPT !.enableTimeLimit = on] :
                               on \in BOOLEAN }
    /\ nextId = 1
    /\ now = 0
    /\ retPc = "idle"
    /\ cutoffDate = 0
    /\ results = [ aged |-> 0, sized |-> 0, geolocations |-> 0 ]
    /\ sizeMB = 0
    /\ insertedDuringRun = FALSE
    /\ lastInsert = NoInsert
    /\ geolocationCache = <<>>
    /\ inflight = [ ip \in GeoIps |-> 0 ]
    /\ lookups = [ ip \in GeoIps |-> 0 ]
    /\ outcomes = [ ip \in GeoIps |-> {} ]
    /\ cacheHits = [ ip \in GeoIps |-> {} ]
    /\ ingPc = "raw"
    /\ source = "connections"
    /\ line = <<NoAddr, NoAddr>>
    /\ WAN_IP = NoAddr
    /\ wanIPCache = NoAddr
    /\ emitted = {}
    /\ ips = {}
    /\ connectionsForDB = {}
    /\ filters = NoFilters
    /\ aggregated = {}
    /\ reducePc = "idle"
    /\ reduceInput = <<>>
    /\ reduceOutput = <<>>
    /\ recentListeningPorts = <<>>
    /\ reduceNow = 1
    /\ passedOn = {}
    /\ ingestionRuns = [ slot \in RunSlots |-> NoRun ]
    /\ retentionRuns = [ slot \in RunSlots |-> NoRun ]
    /\ statementErrors = FALSE
    /\ idReuse = FALSE
    /\ process = "running"
    /\ cacheFile = <<>>
    /\ saves = {}
    /\ atSignal = <<>>
    /\ writeErrors = FALSE
    /\ cyclePc = "idle"
    /\ collected = <<>>
    /\ uniqueIPs = <<>>
    /\ cycleIndex = 0
    /\ cycleLookups = 0
    /\ enriched = {}
    /\ leftOut = {}
    /\ wanNow = 0
    /\ wanIPCacheTime = 0
    /\ wanCalls = [ slot \in WanSlots |-> NoWanCall ]
    /\ lastResolved = NoAddr
    /\ runLog = NoRunLog
    /\ cleanupErrors = FALSE
    /\ runsInARow = 0
    /\ scriptStatus = "idle"
    /\ collectStep = 0
    /\ collectedNow = {}
    /\ failedSource = NoSource
    /\ failedWith = "lines"
    /\ ingestedNow = {}
    /\ invocations = 0
    /\ parsedData = <<>>
    /\ extractType = "connections"
    /\ extractPc = "idle"
    /\ extractedIPs = <<>>
    /\ apiPc = "idle"
    /\ apiParam = <<>>
    /\ apiStatus = 0
    /\ hostnameCache = <<>>
    /\ apiLookups = {}
    /\ requestsMade = 0
    /\ geoRows = {}
    /\ geoClock = 0
    /\ lastUpserted = [ ip \in StoreIps |-> NoUpsert ]
    /\ upsertsMade = 0
    /\ returnedRows = <<>>
    /\ persisted = {}
    /\ lastListenPass = <<>>
    /\ normPc = "idle"
    /\ candidate = NoCandidate
    /\ extractedConn = {}
    /\ mappedConn = {}
    /\ insertedRows = {}
    /\ stagesRun = <<>>
    /\ reverseCompleted = {}
    /\ putBody = NoBody
    /\ configBefore = DefaultRetentionConfig
    /\ putsMade = 0
    /\ ageRows = {}
    /\ ageNow = 0
    /\ hostOffset \in ZoneOffsets
    /\ wanResolvedAt = 0
    /\ lastEndpoint = "none"

\* A server whose getWanIP has resolved the egress address, or has not yet.
ExtractInit ==
    /\ backend \in Backends
    /\ connections = {}
    /\ geolocations = {}
    /\ retentionConfig = DefaultRetentionConfig
    /\ nextId = 1
    /\ now = 0
    /\ retPc = "idle"
    /\ cutoffDate = 0
    /\ results = [ aged |-> 0, sized |-> 0, geolocations |-> 0 ]
    /\ sizeMB = 0
    /\ insertedDuringRun = FALSE
    /\ lastInsert = NoInsert
    /\ geolocationCache = <<>>
    /\ inflight = [ ip \in GeoIps |-> 0 ]
    /\ lookups = [ ip \in GeoIps |-> 0 ]
    /\ outcomes = [ ip \in GeoIps |-> {} ]
    /\ cacheHits = [ ip \in GeoIps |-> {} ]
    /\ ingPc = "raw"
    /\ source = "connections"
    /\ line = <<NoAddr, NoAddr>>
    /\ WAN_IP = NoAddr
    /\ wanIPCache \in {NoAddr, EgressAddr}
    /\ emitted = {}
    /\ ips = {}
    /\ connectionsForDB = {}
    /\ filters = NoFilters
    /\ aggregated = {}
    /\ reducePc = "idle"
    /\ reduceInput = <<>>
    /\ reduceOutput = <<>>
    /\ recentListeningPorts = <<>>
    /\ reduceNow = 1
    /\ passedOn = {}
    /\ ingestionRuns = [ slot \in RunSlots |-> NoRun ]
    /\ retentionRuns = [ slot \in RunSlots |-> NoRun ]
    /\ statementErrors = FALSE
    /\ idReuse = FALSE
    /\ process = "running"
    /\ cacheFile = <<>>
    /\ saves = {}
    /\ atSignal = <<>>
    /\ writeErrors = FALSE
    /\ cyclePc = "idle"
    /\ collected = <<>>
    /\ uniqueIPs = <<>>
    /\ cycleIndex = 0
    /\ cycleLookups = 0
    /\ enriched = {}
    /\ leftOut = {}
    /\ wanNow = 0
    /\ wanIPCacheTime = 0
    /\ wanCalls = [ slot \in WanSlots |-> NoWanCall ]
    /\ lastResolved = NoAddr
    /\ runLog = NoRunLog
    /\ cleanupErrors = FALSE
    /\ runsInARow = 0
    /\ scriptStatus = "idle"
    /\ collectStep = 0
    /\ collectedNow = {}
    /\ failedSource = NoSource
    /\ failedWith = "lines"
    /\ ingestedNow = {}
    /\ invocations = 0
    /\ parsedData = <<>>
    /\ extractType = "connections"
    /\ extractPc = "idle"
    /\ extractedIPs = <<>>
    /\ apiPc = "idle"
    /\ apiParam = <<>>
    /\ apiStatus = 0
    /\ hostnameCache = <<>>
    /\ apiLookups = {}
    /\ requestsMade = 0
    /\ geoRows = {}
    /\ geoClock = 0
    /\ lastUpserted = [ ip \in StoreIps |-> NoUpsert ]
    /\ upsertsMade = 0
    /\ returnedRows = <<>>
    /\ persisted = {}
    /\ lastListenPass = <<>>
    /\ normPc = "idle"
    /\ candidate = NoCandidate
    /\ extractedConn = {}
    /\ mappedConn = {}
    /\ insertedRows = {}
    /\ stagesRun = <<>>
    /\ reverseCompleted = {}
    /\ putBody = NoBody
    /\ configBefore = DefaultRetentionConfig
    /\ putsMade = 0
    /\ ageRows = {}
    /\ ageNow = 0
    /\ hostOffset = 0
    /\ wanResolvedAt = 0
    /\ lastEndpoint = "none"

\* loadGeolocationCache has run (initializeServer, before the server listens):
\* the cache holds what an earlier process saved, failure markers included.
GeoLoadedInit ==
    /\ backend \in Backends
    /\ connections = {}
    /\ geolocations = {}
    /\ retentionConfig = DefaultRetentionConfig
    /\ nextId = 1
    /\ now = 0
    /\ retPc = "idle"
    /\ cutoffDate = 0
    /\ results = [ aged |-> 0, sized |-> 0, geolocations |-> 0 ]
    /\ sizeMB = 0
    /\ insertedDuringRun = FALSE
    /\ lastInsert = NoInsert
    /\ geolocationCache \in UNION { [S -> CacheEntries] : S \in SUBSET GeoIps }
    /\ inflight = [ ip \in GeoIps |-> 0 ]
    /\ lookups = [ ip \in GeoIps |-> 0 ]
    /\ outcomes = [ ip \in GeoIps |-> {} ]
    /\ cacheHits = [ ip \in GeoIps |-> {} ]
    /\ ingPc = "raw"
    /\ source = "connections"
    /\ line = <<NoAddr, NoAddr>>
    /\ WAN_IP = NoAddr
    /\ wanIPCache = NoAddr
    /\ emitted = {}
    /\ ips = {}
    /\ connectionsForDB = {}
    /\ filters = NoFilters
    /\ aggregated = {}
    /\ reducePc = "idle"
    /\ reduceInput = <<>>
    /\ reduceOutput = <<>>
    /\ recentListeningPorts = <<>>
    /\ reduceNow = 1
    /\ passedOn = {}
    /\ ingestionRuns = [ slot \in RunSlots |-> NoRun ]
    /\ retentionRuns = [ slot \in RunSlots |-> NoRun ]
    /\ statementErrors = FALSE
    /\ idReuse = FALSE
    /\ process = "running"
    /\ cacheFile = <<>>
    /\ saves = {}
    /\ atSignal = <<>>
    /\ writeErrors = FALSE
    /\ cyclePc = "idle"
    /\ collected = <<>>
    /\ uniqueIPs = <<>>
    /\ cycleIndex = 0
    /\ cycleLookups = 0
    /\ enriched = {}
    /\ leftOut = {}
    /\ wanNow = 0
    /\ wanIPCacheTime = 0
    /\ wanCalls = [ slot \in WanSlots |-> NoWanCall ]
    /\ lastResolved = NoAddr
    /\ runLog = NoRunLog
    /\ cleanupErrors = FALSE
    /\ runsInARow = 0
    /\ scriptStatus = "idle"
    /\ collectStep = 0
    /\ collectedNow = {}
    /\ failedSource = NoSource
    /\ failedWith = "lines"
    /\ ingestedNow = {}
    /\ invocations = 0
    /\ parsedData = <<>>
    /\ extractType = "connections"
    /\ extractPc = "idle"
    /\ extractedIPs = <<>>
    /\ apiPc = "idle"
    /\ apiParam = <<>>
    /\ apiStatus = 0
    /\ hostnameCache = <<>>
    /\ apiLookups = {}
    /\ requestsMade = 0
    /\ geoRows = {}
    /\ geoClock = 0
    /\ lastUpserted = [ ip \in StoreIps |-> NoUpsert ]
    /\ upsertsMade = 0
    /\ returnedRows = <<>>
    /\ persisted = {}
    /\ lastListenPass = <<>>
    /\ normPc = "idle"
    /\ candidate = NoCandidate
    /\ extractedConn = {}
    /\ mappedConn = {}
    /\ insertedRows = {}
    /\ stagesRun = <<>>
    /\ reverseCompleted = {}
    /\ putBody = NoBody
    /\ configBefore = DefaultRetentionConfig
    /\ putsMade = 0
    /\ ageRows = {}
    /\ ageNow = 0
    /\ hostOffset = 0
    /\ wanResolvedAt = 0
    /\ lastEndpoint = "none"

\* A raw line of some source is about to be collected.  The collector's WAN_IP
\* is the empty string or the configured address (the two script versions); the
\* server's getWanIP has resolved the egress address or has not (null).
IngestInputInit ==
    /\ backend \in Backends
    /\ connections = {}
    /\ geolocations = {}
    /\ retentionConfig = DefaultRetentionConfig
    /\ nextId = 1
    /\ now = 0
    /\ retPc = "idle"
    /\ cutoffDate = 0
    /\ results = [ aged |-> 0, sized |-> 0, geolocations |-> 0 ]
    /\ sizeMB = 0
    /\ insertedDuringRun = FALSE
    /\ lastInsert = NoInsert
    /\ geolocationCache = <<>>
    /\ inflight = [ ip \in GeoIps |-> 0 ]
    /\ lookups = [ ip \in GeoIps |-> 0 ]
    /\ outcomes = [ ip \in GeoIps |-> {} ]
    /\ cacheHits = [ ip \in GeoIps |-> {} ]
    /\ ingPc = "raw"
    /\ source \in Sources
    /\ line \in Lines(source)
    /\ WAN_IP \in {NoAddr, EgressAddr}
    /\ wanIPCache \in {NoAddr, EgressAddr}
    /\ emitted = {}
    /\ ips = {}
    /\ connectionsForDB = {}
    /\ filters = NoFilters
    /\ aggregated = {}
    /\ reducePc = "idle"
    /\ reduceInput = <<>>
    /\ reduceOutput = <<>>
    /\ recentListeningPorts = <<>>
    /\ reduceNow = 1
    /\ passedOn = {}
    /\ ingestionRuns = [ slot \in RunSlots |-> NoRun ]
    /\ retentionRuns = [ slot \in RunSlots |-> NoRun ]
    /\ statementErrors = FALSE
    /\ idReuse = FALSE
    /\ process = "running"
    /\ cacheFile = <<>>
    /\ saves = {}
    /\ atSignal = <<>>
    /\ writeErrors = FALSE
    /\ cyclePc = "idle"
    /\ collected = <<>>
    /\ uniqueIPs = <<>>
    /\ cycleIndex = 0
    /\ cycleLookups = 0
    /\ enriched = {}
    /\ leftOut = {}
    /\ wanNow = 0
    /\ wanIPCacheTime = 0
    /\ wanCalls = [ slot \in WanSlots |-> NoWanCall ]
    /\ lastResolved = NoAddr
    /\ runLog = NoRunLog
    /\ cleanupErrors = FALSE
    /\ runsInARow = 0
    /\ scriptStatus = "idle"
    /\ collectStep = 0
    /\ collectedNow = {}
    /\ failedSource = NoSource
    /\ failedWith = "lines"
    /\ ingestedNow = {}
    /\ invocations = 0
    /\ parsedData = <<>>
    /\ extractType = "connections"
    /\ extractPc = "idle"
    /\ extractedIPs = <<>>
    /\ apiPc = "idle"
    /\ apiParam = <<>>
    /\ apiStatus = 0
    /\ hostnameCache = <<>>
    /\ apiLookups = {}
    /\ requestsMade = 0
    /\ geoRows = {}
    /\ geoClock = 0
    /\ lastUpserted = [ ip \in StoreIps |-> NoUpsert ]
    /\ upsertsMade = 0
    /\ returnedRows = <<>>
    /\ persisted = {}
    /\ lastListenPass = <<>>
    /\ normPc = "idle"
    /\ candidate = NoCandidate
    /\ extractedConn = {}
    /\ mappedConn = {}
    /\ insertedRows = {}
    /\ stagesRun = <<>>
    /\ reverseCompleted = {}
    /\ putBody = NoBody
    /\ configBefore = DefaultRetentionConfig
    /\ putsMade = 0
    /\ ageRows = {}
    /\ ageNow = 0
    /\ hostOffset = 0
    /\ wanResolvedAt = 0
    /\ lastEndpoint = "none"

\* A store holding some rows, about to be queried.
QueryInit ==
    /\ backend \in Backends
    /\ connections \in QueryTables
    /\ geolocations = {}
    /\ retentionConfig = DefaultRetentionConfig
    /\ nextId = MaxRows + 1
    /\ now = 0
    /\ retPc = "idle"
    /\ cutoffDate = 0
    /\ results = [ aged |-> 0, sized |-> 0, geolocations |-> 0 ]
    /\ sizeMB = 0
    /\ insertedDuringRun = FALSE
    /\ lastInsert = NoInsert
    /\ geolocationCache = <<>>
    /\ inflight = [ ip \in GeoIps |-> 0 ]
    /\ lookups = [ ip \in GeoIps |-> 0 ]
    /\ outcomes = [ ip \in GeoIps |-> {} ]
    /\ cacheHits = [ ip \in GeoIps |-> {} ]
    /\ ingPc = "raw"
    /\ source = "connections"
    /\ line = <<NoAddr, NoAddr>>
    /\ WAN_IP = NoAddr
    /\ wanIPCache = NoAddr
    /\ emitted = {}
    /\ ips = {}
    /\ connectionsForDB = {}
    /\ filters = NoFilters
    /\ aggregated = {}
    /\ reducePc = "idle"
    /\ reduceInput = <<>>
    /\ reduceOutput = <<>>
    /\ recentListeningPorts = <<>>
    /\ reduceNow = 1
    /\ passedOn = {}
    /\ ingestionRuns = [ slot \in RunSlots |-> NoRun ]
    /\ retentionRuns = [ slot \in RunSlots |-> NoRun ]
    /\ statementErrors = FALSE
    /\ idReuse = FALSE
    /\ process = "running"
    /\ cacheFile = <<>>
    /\ saves = {}
    /\ atSignal = <<>>
    /\ writeErrors = FALSE
    /\ cyclePc = "idle"
    /\ collected = <<>>
    /\ uniqueIPs = <<>>
    /\ cycleIndex = 0
    /\ cycleLookups = 0
    /\ enriched = {}
    /\ leftOut = {}
    /\ wanNow = 0
    /\ wanIPCacheTime = 0
    /\ wanCalls = [ slot \in WanSlots |-> NoWanCall ]
    /\ lastResolved = NoAddr
    /\ runLog = NoRunLog
    /\ cleanupErrors = FALSE
    /\ runsInARow = 0
    /\ scriptStatus = "idle"
    /\ collectStep = 0
    /\ collectedNow = {}
    /\ failedSource = NoSource
    /\ failedWith = "lines"
    /\ ingestedNow = {}
    /\ invocations = 0
    /\ parsedData = <<>>
    /\ extractType = "connections"
    /\ extractPc = "idle"
    /\ extractedIPs = <<>>
    /\ apiPc = "idle"
    /\ apiParam = <<>>
    /\ apiStatus = 0
    /\ hostnameCache = <<>>
    /\ apiLookups = {}
    /\ requestsMade = 0
    /\ geoRows = {}
    /\ geoClock = 0
    /\ lastUpserted = [ ip \in StoreIps |-> NoUpsert ]
    /\ upsertsMade = 0
    /\ returnedRows = <<>>
    /\ persisted = {}
    /\ lastListenPass = <<>>
    /\ normPc = "idle"
    /\ candidate = NoCandidate
    /\ extractedConn = {}
    /\ mappedConn = {}
    /\ insertedRows = {}
    /\ stagesRun = <<>>
    /\ reverseCompleted = {}
    /\ putBody = NoBody
    /\ configBefore = DefaultRetentionConfig
    /\ putsMade = 0
    /\ ageRows = {}
    /\ ageNow = 0
    /\ hostOffset = 0
    /\ wanResolvedAt = 0
    /\ lastEndpoint = "none"

\* The same, with a database whose INSERT statements may end in an error.
BatchInit ==
    /\ backend \in Backends
    /\ connections = {}
    /\ geolocations = {}
    /\ retentionConfig = DefaultRetentionConfig
    /\ nextId = 1
    /\ now = 0
    /\ retPc = "idle"
    /\ cutoffDate = 0
    /\ results = [ aged |-> 0, sized |-> 0, geolocations |-> 0 ]
    /\ sizeMB = 0
    /\ insertedDuringRun = FALSE
    /\ lastInsert = NoInsert
    /\ geolocationCache = <<>>
    /\ inflight = [ ip \in GeoIps |-> 0 ]
    /\ lookups = [ ip \in GeoIps |-> 0 ]
    /\ outcomes = [ ip \in GeoIps |-> {} ]
    /\ cacheHits = [ ip \in GeoIps |-> {} ]
    /\ ingPc = "raw"
    /\ source = "connections"
    /\ line = <<NoAddr, NoAddr>>
    /\ WAN_IP = NoAddr
    /\ wanIPCache = NoAddr
    /\ emitted = {}
    /\ ips = {}
    /\ connectionsForDB = {}
    /\ filters = NoFilters
    /\ aggregated = {}
    /\ reducePc = "idle"
    /\ reduceInput = <<>>
    /\ reduceOutput = <<>>
    /\ recentListeningPorts = <<>>
    /\ reduceNow = 1
    /\ passedOn = {}
    /\ ingestionRuns = [ slot \in RunSlots |-> NoRun ]
    /\ retentionRuns = [ slot \in RunSlots |-> NoRun ]
    /\ statementErrors = TRUE
    /\ idReuse = FALSE
    /\ process = "running"
    /\ cacheFile = <<>>
    /\ saves = {}
    /\ atSignal = <<>>
    /\ writeErrors = FALSE
    /\ cyclePc = "idle"
    /\ collected = <<>>
    /\ uniqueIPs = <<>>
    /\ cycleIndex = 0
    /\ cycleLookups = 0
    /\ enriched = {}
    /\ leftOut = {}
    /\ wanNow = 0
    /\ wanIPCacheTime = 0
    /\ wanCalls = [ slot \in WanSlots |-> NoWanCall ]
    /\ lastResolved = NoAddr
    /\ runLog = NoRunLog
    /\ cleanupErrors = FALSE
    /\ runsInARow = 0
    /\ scriptStatus = "idle"
    /\ collectStep = 0
    /\ collectedNow = {}
    /\ failedSource = NoSource
    /\ failedWith = "lines"
    /\ ingestedNow = {}
    /\ invocations = 0
    /\ parsedData = <<>>
    /\ extractType = "connections"
    /\ extractPc = "idle"
    /\ extractedIPs = <<>>
    /\ apiPc = "idle"
    /\ apiParam = <<>>
    /\ apiStatus = 0
    /\ hostnameCache = <<>>
    /\ apiLookups = {}
    /\ requestsMade = 0
    /\ geoRows = {}
    /\ geoClock = 0
    /\ lastUpserted = [ ip \in StoreIps |-> NoUpsert ]
    /\ upsertsMade = 0
    /\ returnedRows = <<>>
    /\ persisted = {}
    /\ lastListenPass = <<>>
    /\ normPc = "idle"
    /\ candidate = NoCandidate
    /\ extractedConn = {}
    /\ mappedConn = {}
    /\ insertedRows = {}
    /\ stagesRun = <<>>
    /\ reverseCompleted = {}
    /\ putBody = NoBody
    /\ configBefore = DefaultRetentionConfig
    /\ putsMade = 0
    /\ ageRows = {}
    /\ ageNow = 0
    /\ hostOffset = 0
    /\ wanResolvedAt = 0
    /\ lastEndpoint = "none"

\* An empty database under either configured size limit: the default, or one
\* below the size of an empty database; ingestion may insert without end.
RetentionInit ==
    /\ backend \in Backends
    /\ connections = {}
    /\ geolocations = {}
    /\ retentionConfig \in { [DefaultRetentionConfig EXCEPT !.maxSizeMB = m] :
                              m \in {0, DefaultMaxSizeMB} }
    /\ nextId = 1
    /\ now = 0
    /\ retPc = "idle"
    /\ cutoffDate = 0
    /\ results = [ aged |-> 0, sized |-> 0, geolocations |-> 0 ]
    /\ sizeMB = 0
    /\ insertedDuringRun = FALSE
    /\ lastInsert = NoInsert
    /\ geolocationCache = <<>>
    /\ inflight = [ ip \in GeoIps |-> 0 ]
    /\ lookups = [ ip \in GeoIps |-> 0 ]
    /\ outcomes = [ ip \in GeoIps |-> {} ]
    /\ cacheHits = [ ip \in GeoIps |-> {} ]
    /\ ingPc = "raw"
    /\ source = "connections"
    /\ line = <<NoAddr, NoAddr>>
    /\ WAN_IP = NoAddr
    /\ wanIPCache = NoAddr
    /\ emitted = {}
    /\ ips = {}
    /\ connectionsForDB = {}
    /\ filters = NoFilters
    /\ aggregated = {}
    /\ reducePc = "idle"
    /\ reduceInput = <<>>
    /\ reduceOutput = <<>>
    /\ recentListeningPorts = <<>>
    /\ reduceNow = 1
    /\ passedOn = {}
    /\ ingestionRuns = [ slot \in RunSlots |-> NoRun ]
    /\ retentionRuns = [ slot \in RunSlots |-> NoRun ]
    /\ statementErrors = FALSE
    /\ idReuse = TRUE
    /\ process = "running"
    /\ cacheFile = <<>>
    /\ saves = {}
    /\ atSignal = <<>>
    /\ writeErrors = FALSE
    /\ cyclePc = "idle"
    /\ collected = <<>>
    /\ uniqueIPs = <<>>
    /\ cycleIndex = 0
    /\ cycleLookups = 0
    /\ enriched = {}
    /\ leftOut = {}
    /\ wanNow = 0
    /\ wanIPCacheTime = 0
    /\ wanCalls = [ slot \in WanSlots |-> NoWanCall ]
    /\ lastResolved = NoAddr
    /\ runLog = NoRunLog
    /\ cleanupErrors = FALSE
    /\ runsInARow = 0
    /\ scriptStatus = "idle"
    /\ collectStep = 0
    /\ collectedNow = {}
    /\ failedSource = NoSource
    /\ failedWith = "lines"
    /\ ingestedNow = {}
    /\ invocations = 0
    /\ parsedData = <<>>
    /\ extractType = "connections"
    /\ extractPc = "idle"
    /\ extractedIPs = <<>>
    /\ apiPc = "idle"
    /\ apiParam = <<>>
    /\ apiStatus = 0
    /\ hostnameCache = <<>>
    /\ apiLookups = {}
    /\ requestsMade = 0
    /\ geoRows = {}
    /\ geoClock = 0
    /\ lastUpserted = [ ip \in StoreIps |-> NoUpsert ]
    /\ upsertsMade = 0
    /\ returnedRows = <<>>
    /\ persisted = {}
    /\ lastListenPass = <<>>
    /\ normPc = "idle"
    /\ candidate = NoCandidate
    /\ extractedConn = {}
    /\ mappedConn = {}
    /\ insertedRows = {}
    /\ stagesRun = <<>>
    /\ reverseCompleted = {}
    /\ putBody = NoBody
    /\ configBefore = DefaultRetentionConfig
    /\ putsMade = 0
    /\ ageRows = {}
    /\ ageNow = 0
    /\ hostOffset = 0
    /\ wanResolvedAt = 0
    /\ lastEndpoint = "none"

\* The server has started for the first time: there is no cache file (ENOENT)
\* and the cache in memory is `new Map()`.
ShutdownInit ==
    /\ backend \in Backends
    /\ connections = {}
    /\ geolocations = {}
    /\ retentionConfig = DefaultRetentionConfig
    /\ nextId = 1
    /\ now = 0
    /\ retPc = "idle"
    /\ cutoffDate = 0
    /\ results = [ aged |-> 0, sized |-> 0, geolocations |-> 0 ]
    /\ sizeMB = 0
    /\ insertedDuringRun = FALSE
    /\ lastInsert = NoInsert
    /\ geolocationCache = <<>>
    /\ inflight = [ ip \in GeoIps |-> 0 ]
    /\ lookups = [ ip \in GeoIps |-> 0 ]
    /\ outcomes = [ ip \in GeoIps |-> {} ]
    /\ cacheHits = [ ip \in GeoIps |-> {} ]
    /\ ingPc = "raw"
    /\ source = "connections"
    /\ line = <<NoAddr, NoAddr>>
    /\ WAN_IP = NoAddr
    /\ wanIPCache = NoAddr
    /\ emitted = {}
    /\ ips = {}
    /\ connectionsForDB = {}
    /\ filters = NoFilters
    /\ aggregated = {}
    /\ reducePc = "idle"
    /\ reduceInput = <<>>
    /\ reduceOutput = <<>>
    /\ recentListeningPorts = <<>>
    /\ reduceNow = 1
    /\ passedOn = {}
    /\ ingestionRuns = [ slot \in RunSlots |-> NoRun ]
    /\ retentionRuns = [ slot \in RunSlots |-> NoRun ]
    /\ statementErrors = FALSE
    /\ idReuse = FALSE
    /\ process = "running"
    /\ cacheFile = geolocationCache
    /\ saves = {}
    /\ atSignal = <<>>
    /\ writeErrors \in BOOLEAN
    /\ cyclePc = "idle"
    /\ collected = <<>>
    /\ uniqueIPs = <<>>
    /\ cycleIndex = 0
    /\ cycleLookups = 0
    /\ enriched = {}
    /\ leftOut = {}
    /\ wanNow = 0
    /\ wanIPCacheTime = 0
    /\ wanCalls = [ slot \in WanSlots |-> NoWanCall ]
    /\ lastResolved = NoAddr
    /\ runLog = NoRunLog
    /\ cleanupErrors = FALSE
    /\ runsInARow = 0
    /\ scriptStatus = "idle"
    /\ collectStep = 0
    /\ collectedNow = {}
    /\ failedSource = NoSource
    /\ failedWith = "lines"
    /\ ingestedNow = {}
    /\ invocations = 0
    /\ parsedData = <<>>
    /\ extractType = "connections"
    /\ extractPc = "idle"
    /\ extractedIPs = <<>>
    /\ apiPc = "idle"
    /\ apiParam = <<>>
    /\ apiStatus = 0
    /\ hostnameCache = <<>>
    /\ apiLookups = {}
    /\ requestsMade = 0
    /\ geoRows = {}
    /\ geoClock = 0
    /\ lastUpserted = [ ip \in StoreIps |-> NoUpsert ]
    /\ upsertsMade = 0
    /\ returnedRows = <<>>
    /\ persisted = {}
    /\ lastListenPass = <<>>
    /\ normPc = "idle"
    /\ candidate = NoCandidate
    /\ extractedConn = {}
    /\ mappedConn = {}
    /\ insertedRows = {}
    /\ stagesRun = <<>>
    /\ reverseCompleted = {}
    /\ putBody = NoBody
    /\ configBefore = DefaultRetentionConfig
    /\ putsMade = 0
    /\ ageRows = {}
    /\ ageNow = 0
    /\ hostOffset = 0
    /\ wanResolvedAt = 0
    /\ lastEndpoint = "none"

\* The server has started with an empty cache; the collector keeps writing the
\* same external addresses into the data files.
CycleInit ==
    /\ backend \in Backends
    /\ connections = {}
    /\ geolocations = {}
    /\ retentionConfig = DefaultRetentionConfig
    /\ nextId = 1
    /\ now = 0
    /\ retPc = "idle"
    /\ cutoffDate = 0
    /\ results = [ aged |-> 0, sized |-> 0, geolocations |-> 0 ]
    /\ sizeMB = 0
    /\ insertedDuringRun = FALSE
    /\ lastInsert = NoInsert
    /\ geolocationCache = <<>>
    /\ inflight = [ ip \in GeoIps |-> 0 ]
    /\ lookups = [ ip \in GeoIps |-> 0 ]
    /\ outcomes = [ ip \in GeoIps |-> {} ]
    /\ cacheHits = [ ip \in GeoIps |-> {} ]
    /\ ingPc = "raw"
    /\ source = "connections"
    /\ line = <<NoAddr, NoAddr>>
    /\ WAN_IP = NoAddr
    /\ wanIPCache = NoAddr
    /\ emitted = {}
    /\ ips = {}
    /\ connectionsForDB = {}
    /\ filters = NoFilters
    /\ aggregated = {}
    /\ reducePc = "idle"
    /\ reduceInput = <<>>
    /\ reduceOutput = <<>>
    /\ recentListeningPorts = <<>>
    /\ reduceNow = 1
    /\ passedOn = {}
    /\ ingestionRuns = [ slot \in RunSlots |-> NoRun ]
    /\ retentionRuns = [ slot \in RunSlots |-> NoRun ]
    /\ statementErrors = FALSE
    /\ idReuse = FALSE
    /\ process = "running"
    /\ cacheFile = <<>>
    /\ saves = {}
    /\ atSignal = <<>>
    /\ writeErrors = FALSE
    /\ cyclePc = "idle"
    /\ collected \in CollectedInputs
    /\ uniqueIPs = <<>>
    /\ cycleIndex = 0
    /\ cycleLookups = 0
    /\ enriched = {}
    /\ leftOut = {}
    /\ wanNow = 0
    /\ wanIPCacheTime = 0
    /\ wanCalls = [ slot \in WanSlots |-> NoWanCall ]
    /\ lastResolved = NoAddr
    /\ runLog = NoRunLog
    /\ cleanupErrors = FALSE
    /\ runsInARow = 0
    /\ scriptStatus = "idle"
    /\ collectStep = 0
    /\ collectedNow = {}
    /\ failedSource = NoSource
    /\ failedWith = "lines"
    /\ ingestedNow = {}
    /\ invocations = 0
    /\ parsedData = <<>>
    /\ extractType = "connections"
    /\ extractPc = "idle"
    /\ extractedIPs = <<>>
    /\ apiPc = "idle"
    /\ apiParam = <<>>
    /\ apiStatus = 0
    /\ hostnameCache = <<>>
    /\ apiLookups = {}
    /\ requestsMade = 0
    /\ geoRows = {}
    /\ geoClock = 0
    /\ lastUpserted = [ ip \in StoreIps |-> NoUpsert ]
    /\ upsertsMade = 0
    /\ returnedRows = <<>>
    /\ persisted = {}
    /\ lastListenPass = <<>>
    /\ normPc = "idle"
    /\ candidate = NoCandidate
    /\ extractedConn = {}
    /\ mappedConn = {}
    /\ insertedRows = {}
    /\ stagesRun = <<>>
    /\ reverseCompleted = {}
    /\ putBody = NoBody
    /\ configBefore = DefaultRetentionConfig
    /\ putsMade = 0
    /\ ageRows = {}
    /\ ageNow = 0
    /\ hostOffset = 0
    /\ wanResolvedAt = 0
    /\ lastEndpoint = "none"

\* The same empty database, where the statements of a retention run may fail.
CleanupFaultsInit ==
    /\ backend \in Backends
    /\ connections = {}
    /\ geolocations = {}
    /\ retentionConfig = DefaultRetentionConfig
    /\ nextId = 1
    /\ now = 0
    /\ retPc = "idle"
    /\ cutoffDate = 0
    /\ results = [ aged |-> 0, sized |-> 0, geolocations |-> 0 ]
    /\ sizeMB = 0
    /\ insertedDuringRun = FALSE
    /\ lastInsert = NoInsert
    /\ geolocationCache = <<>>
    /\ inflight = [ ip \in GeoIps |-> 0 ]
    /\ lookups = [ ip \in GeoIps |-> 0 ]
    /\ outcomes = [ ip \in GeoIps |-> {} ]
    /\ cacheHits = [ ip \in GeoIps |-> {} ]
    /\ ingPc = "raw"
    /\ source = "connections"
    /\ line = <<NoAddr, NoAddr>>
    /\ WAN_IP = NoAddr
    /\ wanIPCache = NoAddr
    /\ emitted = {}
    /\ ips = {}
    /\ connectionsForDB = {}
    /\ filters = NoFilters
    /\ aggregated = {}
    /\ reducePc = "idle"
    /\ reduceInput = <<>>
    /\ reduceOutput = <<>>
    /\ recentListeningPorts = <<>>
    /\ reduceNow = 1
    /\ passedOn = {}
    /\ ingestionRuns = [ slot \in RunSlots |-> NoRun ]
    /\ retentionRuns = [ slot \in RunSlots |-> NoRun ]
    /\ statementErrors = FALSE
    /\ idReuse = FALSE
    /\ process = "running"
    /\ cacheFile = <<>>
    /\ saves = {}
    /\ atSignal = <<>>
    /\ writeErrors = FALSE
    /\ cyclePc = "idle"
    /\ collected = <<>>
    /\ uniqueIPs = <<>>
    /\ cycleIndex = 0
    /\ cycleLookups = 0
    /\ enriched = {}
    /\ leftOut = {}
    /\ wanNow = 0
    /\ wanIPCacheTime = 0
    /\ wanCalls = [ slot \in WanSlots |-> NoWanCall ]
    /\ lastResolved = NoAddr
    /\ runLog = NoRunLog
    /\ cleanupErrors = TRUE
    /\ runsInARow = 0
    /\ scriptStatus = "idle"
    /\ collectStep = 0
    /\ collectedNow = {}
    /\ failedSource = NoSource
    /\ failedWith = "lines"
    /\ ingestedNow = {}
    /\ invocations = 0
    /\ parsedData = <<>>
    /\ extractType = "connections"
    /\ extractPc = "idle"
    /\ extractedIPs = <<>>
    /\ apiPc = "idle"
    /\ apiParam = <<>>
    /\ apiStatus = 0
    /\ hostnameCache = <<>>
    /\ apiLookups = {}
    /\ requestsMade = 0
    /\ geoRows = {}
    /\ geoClock = 0
    /\ lastUpserted = [ ip \in StoreIps |-> NoUpsert ]
    /\ upsertsMade = 0
    /\ returnedRows = <<>>
    /\ persisted = {}
    /\ lastListenPass = <<>>
    /\ normPc = "idle"
    /\ candidate = NoCandidate
    /\ extractedConn = {}
    /\ mappedConn = {}
    /\ insertedRows = {}
    /\ stagesRun = <<>>
    /\ reverseCompleted = {}
    /\ putBody = NoBody
    /\ configBefore = DefaultRetentionConfig
    /\ putsMade = 0
    /\ ageRows = {}
    /\ ageNow = 0
    /\ hostOffset = 0
    /\ wanResolvedAt = 0
    /\ lastEndpoint = "none"

StoreNext ==
    \/ InsertConnectionsBatch
    \/ InsertConnections
    \/ UpsertGeolocation
    \/ Tick
    \/ RunRetentionPolicies
    \/ CleanupByAgeSqlite
    \/ CleanupByAgePostgres
    \/ CleanupBySizeSqlite
    \/ CleanupBySizePostgres
    \/ CleanupBySizeLoop
    \/ CleanupOrphanedGeolocations
    \/ VacuumAnalyzePostgres
    \/ RetentionReturn

SpecStore == StoreInit /\ [][StoreNext]_vars

AgeNext ==
    \/ CollectAndInsert
    \/ AgeTick
    \/ CleanupByAgeText
    \/ CleanupByAgeInstant

SpecAge == AgeInit /\ [][AgeNext]_vars

ConfigNext ==
    \/ PutRetentionConfig

SpecConfig == StoreInit /\ [][ConfigNext]_vars

NormalizeNext ==
    \/ ReadConntrackEntry
    \/ ExtractConntrackEntry
    \/ MapConntrackEntry
    \/ InsertAggregatedEntry
    \/ NextConntrackEntry

SpecNormalize == StoreInit /\ [][NormalizeNext]_vars

UpsertNext ==
    \/ UpsertGeolocationSqlite
    \/ InsertGeolocationPostgres
    \/ GeoClockTick

SpecUpsert == StoreInit /\ [][UpsertNext]_vars

ApiNext ==
    \/ GetHostnameRequest
    \/ GetHostnameResume
    \/ GetLocationRequest
    \/ GetLocationResume

SpecApi == StoreInit /\ [][ApiNext]_vars

ExtractNext ==
    \/ ExtractIPsFromDataCall
    \/ ExtractIPsFromDataReturn
    \/ InsertExtracted

SpecExtract == ExtractInit /\ [][ExtractNext]_vars

GeoNext ==
    \/ GetIPLocationCall
    \/ GetIPLocationResume

SpecGeo == GeoLoadedInit /\ [][GeoNext]_vars

IngestNext ==
    \/ CollectFiremainIps
    \/ CollectRealtimeConnections
    \/ CollectConnectionTracking
    \/ extractIPsFromData
    \/ loadConnectionData

SpecIngest == IngestInputInit /\ [][IngestNext]_vars

QueryNext ==
    \/ HistoryFastPostgres
    \/ HistoryFastSqlite

SpecQuery == QueryInit /\ [][QueryNext]_vars

ReduceNext ==
    \/ applyDataReduction
    \/ ReduceReturn
    \/ ClearRecentListeningPorts
    \/ ReduceTick

SpecReduce == StoreInit /\ [][ReduceNext]_vars

JobsNext ==
    \/ CronCollection
    \/ PostRefresh
    \/ RunDataCollectionResume
    \/ LoadConnectionDataStart
    \/ LoadConnectionDataEnd
    \/ CronRetention
    \/ PostRetentionRun
    \/ RetentionRunEnd

SpecJobs == StoreInit /\ [][JobsNext]_vars

BatchNext ==
    \/ InsertConnectionsBatch
    \/ InsertConnections
    \/ Tick

SpecBatch == BatchInit /\ [][BatchNext]_vars

RetentionNext ==
    \/ InsertConnectionsBatch
    \/ InsertConnections
    \/ RunRetentionPolicies
    \/ CleanupByAgeSqlite
    \/ CleanupByAgePostgres
    \/ CleanupBySizeSqlite
    \/ CleanupBySizePostgres
    \/ CleanupBySizeLoop
    \/ CleanupOrphanedGeolocations
    \/ VacuumAnalyzePostgres
    \/ RetentionReturn

\* A run that has been entered goes on: each awaited query resolves and the
\* async function resumes.  Nothing obliges ingestion to insert, or to stop.
RetentionFairness ==
    /\ WF_vars(CleanupByAgeSqlite)
    /\ WF_vars(CleanupByAgePostgres)
    /\ WF_vars(CleanupBySizeSqlite)
    /\ WF_vars(CleanupBySizePostgres)
    /\ WF_vars(CleanupBySizeLoop)
    /\ WF_vars(CleanupOrphanedGeolocations)
    /\ WF_vars(VacuumAnalyzePostgres)
    /\ WF_vars(RetentionReturn)

SpecRetention == RetentionInit /\ [][RetentionNext]_vars /\ RetentionFairness

ShutdownNext ==
    \/ GetIPLocationCall
    \/ GetIPLocationResume
    \/ CronSaveCache
    \/ ShutdownSignal
    \/ WriteFileOpen
    \/ WriteFileWrite
    \/ ProcessExit

SpecShutdown == ShutdownInit /\ [][ShutdownNext]_vars

CycleNext ==
    \/ EnrichmentLoopStart
    \/ EnrichmentLoopCall
    \/ EnrichmentLoopResume
    \/ EnrichmentLoopEnd

\* The cron job starts a cycle every two minutes, the service answers every
\* request, and a cycle that can take its next step takes it.
CycleFairness ==
    /\ WF_vars(EnrichmentLoopStart)
    /\ WF_vars(EnrichmentLoopCall)
    /\ WF_vars(EnrichmentLoopResume)
    /\ WF_vars(EnrichmentLoopEnd)

SpecCycle == CycleInit /\ [][CycleNext]_vars /\ CycleFairness

WanNext ==
    \/ GetWanIPCall
    \/ GetWanIPResolved
    \/ GetWanIPFailed
    \/ WanTick

SpecWan == StoreInit /\ [][WanNext]_vars

CleanupFaultsNext ==
    \/ InsertConnectionsBatch
    \/ InsertConnections
    \/ UpsertGeolocation
    \/ RunRetentionPolicies
    \/ CleanupByAgeSqlite
    \/ CleanupByAgePostgres
    \/ CleanupBySizeSqlite
    \/ CleanupBySizePostgres
    \/ CleanupBySizeLoop
    \/ CleanupOrphanedGeolocations
    \/ VacuumAnalyzePostgres
    \/ RetentionReturn

SpecCleanupFaults == CleanupFaultsInit /\ [][CleanupFaultsNext]_vars

CollectNext ==
    \/ RunDataCollectionExec
    \/ CollectSource
    \/ CollectAllDone
    \/ RunDataCollectionLoad
    \/ RunDataCollectionCatch

SpecCollect == StoreInit /\ [][CollectNext]_vars

-----------------------------------------------------------------------------
(* Claims about the persistence layer, checked under SpecStore.              *)

\* C1: inserting records whose uniqueness key (absent fields included) is already
\* stored leaves the number of stored rows unchanged.
C1_IdempotentInsert ==
    lastInsert.duplicate => ~lastInsert.grew

\* C2: after a retention run with the time limit enabled and no insert
\* interleaved, no surviving row is older than maxAgeDays relative to the run.
C2_NoExpiredRowSurvives ==
    (retPc = "done" /\ retentionConfig.enableTimeLimit /\ ~insertedDuringRun)
        => \A r \in connections : ~(r.timestamp < cutoffDate)

\* C3: when cleanupBySize has completed (no insert interleaved), the measured size
\* is within maxSizeMB or the table is empty; and a run that found the limit
\* disabled or the size within the limit deleted nothing.
C3_SizeWithinLimitOrEmpty ==
    (retPc = "orphans" /\ ~insertedDuringRun)
        => /\ retentionConfig.enableSizeLimit
                => \/ DatabaseSizeMB(connections) <= retentionConfig.maxSizeMB
                   \/ connections = {}
           /\ (~retentionConfig.enableSizeLimit \/ sizeMB <= retentionConfig.maxSizeMB)
                => results.sized = 0

\* C4: the orphan-cleanup step of a retention run removes exactly the geolocation
\* rows whose address no connection row references.
C4_OrphansRemovedIff ==
    [][ (retPc = "orphans" /\ retPc' = "done")
          => geolocations' = { g \in geolocations : \E r \in connections : r.ip = g }
      ]_vars

\* C15 (under SpecBatch): when the insert of any record of a batch failed, no
\* record of that batch has become visible in the connections table once the
\* call returned.
C15_FailedBatchLeavesNothing ==
    lastInsert.failed => ~lastInsert.grew

\* C16 (under SpecRetention): every retention run that has been entered
\* returns, whatever the configured size limit and however ingestion inserts
\* interleave with it.
C16_RetentionRunReturns ==
    (retPc = "age") ~> (retPc = "done")

\* C21 (under SpecCleanupFaults): a retention run in which a step or batch
\* failed after rows had been deleted still returns a report, and the counts of
\* the report include the rows the run deleted.
C21_PartialResultsReported ==
    (retPc = "done" /\ runLog.failed /\ runLog.deleted > 0)
      => /\ runLog.outcome = "returned"
         /\ results.aged + results.sized = runLog.deleted

\* C22: the second of two retention runs in a row, with no insert, upsert or
\* passing of time since the first was entered, deletes no connection row and
\* no geolocation row.
C22_SecondRunDeletesNothing ==
    (retPc = "done" /\ runsInARow = 2)
      => /\ runLog.deleted = 0
         /\ results.geolocations = 0

-----------------------------------------------------------------------------
(* Claims about the geolocations table, checked under SpecUpsert.            *)

RowsOf(ip) == { r \in geoRows : r.ip = ip }

\* C26: the geolocations table holds at most one row per address, and for an
\* address that has been upserted that row carries the country and country
\* code of the most recent upsert and the time of that upsert as lastUpdated.
C26_UpsertKeepsLatestValues ==
    \A ip \in StoreIps :
       /\ Cardinality(RowsOf(ip)) <= 1
       /\ lastUpserted[ip].made
            => /\ Cardinality(RowsOf(ip)) = 1
               /\ \A r \in RowsOf(ip) :
                     /\ r.country = lastUpserted[ip].geoData.country
                     /\ r.country_code = lastUpserted[ip].geoData.countryCode
                     /\ r.last_updated = lastUpserted[ip].at

-----------------------------------------------------------------------------
(* Claims about extraction from a parsed file, checked under SpecExtract.    *)

\* The batch without its k-th entry.
Without(data, k) == [ i \in 1..(Len(data) - 1) |-> IF i < k THEN data[i] ELSE data[i + 1] ]

\* An entry that is null, or in which a field the case of its data type reads
\* (other than the timestamp) is missing or holds a value of the wrong type.
MalformedFor(item, type) ==
    \/ item.null
    \/ item.external_ip.type # "string"
    \/ type = "current_connections" /\ item.local_ip.type # "string"
    \/ type = "connection_tracking" /\ item.direction = NoDirection

\* C24: what extractIPsFromData returns for a batch is what it returns for the
\* batch without any one of its malformed entries: the malformed entry yields
\* no record and leaves the records of the other entries as they are.
C24_MalformedEntriesSkipped ==
    extractPc = "returned"
      => \A k \in DOMAIN parsedData :
            MalformedFor(parsedData[k], extractType)
              => extractedIPs = ExtractFrom(Without(parsedData, k), 1, extractType, wanIPCache)

\* C28: once the extracted records are inserted, every extracted record that
\* carries no timestamp has a stored row whose timestamp is the ingestion time.
C28_MissingTimestampGetsIngestionTime ==
    extractPc = "persisted"
      => \A i \in DOMAIN extractedIPs :
            extractedIPs[i].timestamp = NoTimestamp
              => \E r \in persisted :
                    r.ip = extractedIPs[i].ip /\ r.timestamp = IngestionTime

-----------------------------------------------------------------------------
(* Claims about the per-address endpoints, checked under SpecApi.            *)

\* C25: a request whose parameter is no IPv4 dotted quad is answered 400, and
\* for no such parameter is a DNS or geolocation lookup ever issued or an
\* entry written to the hostname or geolocation cache.
C25_InvalidAddressRejected ==
    /\ (apiPc = "idle" /\ requestsMade > 0 /\ ~ValidIPv4(apiParam)) => apiStatus = 400
    /\ \A ip \in RequestParams :
          ~ValidIPv4(ip)
            => /\ <<"dns", ip>> \notin apiLookups
               /\ <<"geo", ip>> \notin apiLookups
               /\ ip \notin DOMAIN hostnameCache
               /\ ip \notin DOMAIN geolocationCache

\* C33: once a reverse lookup for an address has settled, with names, with an
\* empty answer or with an error, no later call for that address waits on
\* dns.reverse again.
C33_ReverseLookupMemoized ==
    apiPc = "reverse" => apiParam \notin reverseCompleted

\* C38: a request to GET /api/location/:ip for an address whose lookup failed
\* is answered 404, the one that performed the lookup and every later one.
C38_FailedLookupAnswered404 ==
    (apiPc = "idle" /\ lastEndpoint = "location" /\ MatchesDottedDigits(apiParam)
        /\ apiParam \in DOMAIN geolocationCache
        /\ geolocationCache[apiParam] = "failure")
      => apiStatus = 404

-----------------------------------------------------------------------------
(* Claims about acquisition, checked under SpecCollect.                      *)

\* C23: once an invocation in which the remote command of one source failed
\* (or printed no matching line) has settled, every other source has been
\* collected, and ingested where loadConnectionData reads its type.
C23_OtherSourcesStillCollected ==
    (scriptStatus = "settled" /\ failedSource # NoSource)
      => \A i \in DOMAIN CollectAllOrder :
            CollectAllOrder[i] # failedSource
              => /\ CollectAllOrder[i] \in collectedNow
                 /\ CollectAllOrder[i] \in FileTypes
                      => CollectAllOrder[i] \in ingestedNow

-----------------------------------------------------------------------------
(* Claims about shutdown, checked under SpecShutdown.                        *)

\* C17: once the process has exited on SIGINT / SIGTERM, the cache file holds
\* every entry the in-memory cache held when the signal arrived.
C17_ExitAfterFlush ==
    process = "exited"
      => \A ip \in DOMAIN atSignal :
            ip \in DOMAIN cacheFile /\ cacheFile[ip] = atSignal[ip]

-----------------------------------------------------------------------------
(* Claims about the enrichment loop, checked under SpecCycle.                *)

\* C18: within one cycle at most EnrichCap distinct addresses are enriched and
\* at most EnrichCap external lookups are issued, however many unique
\* addresses the cycle found.
C18_EnrichmentBudget ==
    /\ Cardinality(enriched) <= EnrichCap
    /\ cycleLookups <= EnrichCap

\* A cycle that found more addresses than the cap has spent its whole budget.
C18_BudgetSpentOverCap ==
    /\ Len(uniqueIPs) > EnrichCap
    /\ cycleLookups = EnrichCap
    /\ Cardinality(enriched) = EnrichCap
    /\ cyclePc = "idle"

\* C19: where every lookup succeeds and the same addresses keep appearing, an
\* address a cycle left out because of the cap is enriched by a later cycle.
C19_LeftOutEnrichedLater ==
    [](\A ip \in GeoIps : outcomes[ip] \subseteq {"success"})
      => \A ip \in GeoIps : (ip \in leftOut) ~> (ip \in enriched)

-----------------------------------------------------------------------------
(* Claims about egress address resolution, checked under SpecWan.            *)

\* C20: a getWanIP call whose resolution failed has returned the last
\* successfully resolved address and left the cached value as it was, and the
\* classification it was made for has completed with that address.
C20_FallbackToLastResolved ==
    \A slot \in WanSlots :
        (wanCalls[slot].pc = "done" /\ wanCalls[slot].failed)
          => /\ wanCalls[slot].wanIP = wanCalls[slot].lastKnown
             /\ wanCalls[slot].cacheAfter = wanCalls[slot].lastKnown
             /\ wanCalls[slot].verdict
                  = IsExternalGiven(wanCalls[slot].ip, wanCalls[slot].lastKnown)

\* A resolution failed while an address was cached (expired, or resolved by an
\* overlapping call): that address is returned and the egress address is
\* classified as not external.
C20_StaleAddressReused ==
    \E slot \in WanSlots :
        /\ wanCalls[slot].pc = "done" /\ wanCalls[slot].failed
        /\ wanCalls[slot].wanIP = EgressAddr
        /\ wanCalls[slot].ip = EgressAddr
        /\ ~wanCalls[slot].verdict

\* getWanIP is entered for the call of slot in this step.
Entered(slot) == wanCalls[slot].pc # "lookup" /\ wanCalls'[slot] # wanCalls[slot]

\* dns.lookup resolves for the call of slot in this step.
Resolves(slot) ==
    wanCalls[slot].pc = "lookup" /\ wanCalls'[slot].pc = "done" /\ ~wanCalls'[slot].failed

\* C35 as stated: a call entered while the cached address was resolved less
\* than one cache duration ago returns it without a lookup; a lookup is started
\* only with no address cached or one resolved a cache duration ago or
\* earlier; a lookup that resolves replaces the cached address.
C35_EgressCacheTtl ==
    [][ \A slot \in WanSlots :
          /\ Entered(slot) =>
               /\ (wanIPCache # NoAddr /\ wanNow - wanResolvedAt < WanIpCacheDuration)
                     => /\ wanCalls'[slot].pc = "done"
                        /\ wanCalls'[slot].wanIP = wanIPCache
               /\ wanCalls'[slot].pc = "lookup"
                     => \/ wanIPCache = NoAddr
                        \/ wanNow - wanResolvedAt >= WanIpCacheDuration
          /\ Resolves(slot) => wanIPCache' = wanCalls'[slot].wanIP ]_vars

\* C35 with the age counted from the start of the call that resolved the
\* address (`now` is read before dns.lookup): the same three statements, and
\* a lookup that resolves sets the period's start to the start of its call.
C35_EgressCacheTtlFromCallStart ==
    [][ \A slot \in WanSlots :
          /\ Entered(slot) =>
               /\ (wanIPCache # NoAddr /\ wanNow - wanIPCacheTime < WanIpCacheDuration)
                     => /\ wanCalls'[slot].pc = "done"
                        /\ wanCalls'[slot].wanIP = wanIPCache
               /\ wanCalls'[slot].pc = "lookup"
                     => \/ wanIPCache = NoAddr
                        \/ wanNow - wanIPCacheTime >= WanIpCacheDuration
          /\ Resolves(slot) =>
               /\ wanIPCache' = wanCalls'[slot].wanIP
               /\ wanIPCacheTime' = wanCalls[slot].startedAt ]_vars

\* A call was answered from the cache that a resolved lookup had filled less
\* than a cache duration before the call.
C35_ServedWithinPeriod ==
    \E served, resolved \in WanSlots :
        /\ wanCalls[served].pc = "done" /\ ~wanCalls[served].lookedUp
        /\ wanCalls[served].wanIP = wanIPCache /\ wanIPCache # NoAddr
        /\ wanCalls[resolved].pc = "done" /\ wanCalls[resolved].lookedUp
        /\ ~wanCalls[resolved].failed
        /\ wanCalls[served].startedAt - wanIPCacheTime < WanIpCacheDuration

-----------------------------------------------------------------------------
(* Claims about the enrichment cache, checked under SpecGeo.                 *)

MarkedFailed(ip) ==
    ip \in DOMAIN geolocationCache /\ geolocationCache[ip] = "failure"

\* C5: no step issues an external lookup for an address that is marked failed.
C5_NoLookupOnceFailed ==
    [][ \A ip \in GeoIps : MarkedFailed(ip) => lookups'[ip] = lookups[ip] ]_vars

\* C5 witness: an address whose lookup threw in this process was marked failed
\* and a later call for it was answered from the failure marker.
C5_FailedServedFromCache ==
    \E ip \in GeoIps :
        /\ "throw" \in outcomes[ip]
        /\ MarkedFailed(ip)
        /\ "failure" \in cacheHits[ip]

\* C6: once a lookup for an address has thrown or come back with a status other
\* than "success", the cache holds an entry for the address (so a later
\* getIPLocation call for it sends no request).
C6_FailureMemoized ==
    \A ip \in GeoIps :
        (outcomes[ip] \cap {"throw", "fail_status"} # {}) => CacheHas(ip)

\* C37: for every address, at most one request has been sent to the
\* geolocation service since the process started, however the calls of the
\* enrichment loop and of GET /api/location/:ip overlap.
C37_OneLookupPerAddress ==
    \A ip \in GeoIps : lookups[ip] <= 1

-----------------------------------------------------------------------------
(* Claims about the ingestion path, checked under SpecIngest.                *)

\* RFC1918 or loopback: 10/8, 172.16/12, 192.168/16, 127/8.
InternalRange(ip) ==
    \/ ip[1] = 10
    \/ ip[1] = 172 /\ ip[2] >= 16 /\ ip[2] <= 31
    \/ ip[1] = 192 /\ ip[2] = 168
    \/ ip[1] = 127

\* Link-local, multicast, the resolved egress address, the zero address.
AlwaysExcluded(ip) ==
    \/ ip[1] = 169 /\ ip[2] = 254
    \/ ip[1] = 224
    \/ wanIPCache # NoAddr /\ ip = wanIPCache
    \/ ip = ZeroAddr

\* C7: every classifier of the pipeline treats the addresses of 10/8, 172.16/12,
\* 192.168/16 and 127/8 as internal (no collector output names one as its
\* external address, isExternalIP rejects it), and isExternalIP accepts every
\* other address except link-local, multicast, the resolved egress address and
\* 0.0.0.0.
C7_InternalNeverExternal ==
    /\ \A item \in emitted :
          item.external_ip # NoAddr => ~InternalRange(item.external_ip)
    /\ \A ip \in Addresses : InternalRange(ip) => ~isExternalIP(ip)
    /\ \A ip \in Addresses :
          (~InternalRange(ip) /\ ~AlwaysExcluded(ip)) => isExternalIP(ip)

\* C8: no record the ingestion path emits or hands to the database has an
\* external address that is the resolved egress address, link-local, multicast
\* or 0.0.0.0.
C8_NoExcludedExternalAddress ==
    /\ \A conn \in ips : ~AlwaysExcluded(conn.ip)
    /\ \A conn \in connectionsForDB : ~AlwaysExcluded(conn.ip)

\* The line holds exactly one internal address, and the other one is an
\* ordinary routable address.
OneInternalOnePublic(a, b) ==
    /\ InternalRange(a) /\ ~InternalRange(b)
    /\ ~AlwaysExcluded(b) /\ b # EgressAddr

\* C9: a connection-log line with exactly one internal address, in either order,
\* yields exactly one record: external address the non-internal one, local
\* address the internal one, direction inbound.
C9_LogLineYieldsOneRecord ==
    (ingPc = "mapped" /\ source = "connections")
        => \A i \in {1, 2} :
             OneInternalOnePublic(line[i], line[3 - i])
                => /\ Cardinality(connectionsForDB) = 1
                   /\ \A conn \in connectionsForDB :
                        /\ conn.ip = line[3 - i]
                        /\ conn.internal_ip = line[i]
                        /\ conn.direction = "inbound"

\* C10: for a conntrack entry whose original source is internal and whose
\* original destination is neither internal nor the egress address, the
\* collector emits one record with direction outbound, external address the
\* original destination and local address the original source.
C10_ConntrackOutbound ==
    (ingPc # "raw" /\ source = "connection_tracking"
       /\ InternalRange(line[1]) /\ ~InternalRange(line[2])
       /\ line[2] # EgressAddr)
        => emitted = { Item("outbound", line[2], line[1], NoData) }

\* The line of the connection log holds two non-internal addresses and the
\* collector knows the egress address.
NeitherInternal ==
    /\ source = "connections" /\ WAN_IP = EgressAddr
    /\ ~InternalRange(line[1]) /\ ~InternalRange(line[2])

\* C29: for a connection-log line whose two addresses are both non-internal,
\* with the egress address resolved, every record the collector writes has
\* local address "WAN" and an external address other than the egress address;
\* where exactly one of the two is the egress address, the external address is
\* the other one; and every record handed to the database for the line still
\* has local address "WAN" and an external address other than the egress one.
C29_NeitherInternalRule ==
    /\ (ingPc # "raw" /\ NeitherInternal)
          => \A item \in emitted :
                /\ item.internal_ip = WanLabel
                /\ item.external_ip # EgressAddr
                /\ \A i \in {1, 2} :
                      (line[i] = EgressAddr /\ line[3 - i] # EgressAddr)
                         => item.external_ip = line[3 - i]
    /\ (ingPc = "mapped" /\ NeitherInternal)
          => \A conn \in connectionsForDB :
                conn.internal_ip = WanLabel /\ conn.ip # EgressAddr

\* C30: with the egress address resolved, every record the connection-tracking
\* collector writes with direction inbound has an external address that is not
\* internal and not the egress address, and a local address that is internal.
C30_InboundConntrackEndpoints ==
    (ingPc # "raw" /\ source = "connection_tracking" /\ WAN_IP = EgressAddr)
        => \A item \in emitted :
              item.direction = "inbound"
                 => /\ ~InternalRange(item.external_ip)
                    /\ item.external_ip # EgressAddr
                    /\ InternalRange(item.internal_ip)

-----------------------------------------------------------------------------
(* Claims about the aggregation query, checked under SpecQuery.              *)

\* The addresses that have at least one stored record of direction d.
AddressesOfDirection(d) == { r.ip : r \in { x \in connections : x.direction = d } }

\* The summaries are one per address, each for an address with records of
\* direction d and counting exactly those, `expected` of them in number.
SummariesFor(d, qualifying, expected) ==
    /\ \A s, t \in aggregated : s.ip = t.ip => s = t
    /\ \A s \in aggregated :
         /\ s.ip \in qualifying
         /\ s.connectionCount =
               Cardinality({ r \in connections : r.ip = s.ip /\ r.direction = d })
         /\ s.inboundCount = IF d = "inbound" THEN s.connectionCount ELSE 0
         /\ s.outboundCount = IF d = "outbound" THEN s.connectionCount ELSE 0
    /\ Cardinality(aggregated) = expected

MinOf(a, b) == IF a < b THEN a ELSE b

ReportableOfDirection(d) ==
    IF backend = "postgres"
    THEN AddressesOfDirection(d) \ {ZeroAddr}
    ELSE AddressesOfDirection(d)

C27_SummariesByRecencyWithinLimit ==
    filters.limit > 0
      => /\ Len(returnedRows) <= filters.limit
         /\ \A i, j \in DOMAIN returnedRows :
               i < j => returnedRows[i].lastSeen >= returnedRows[j].lastSeen

-----------------------------------------------------------------------------
(* Claims about data reduction, checked under SpecReduce.                    *)

\* The positions of seq holding a record of address ip in time bucket b.
InBucket(seq, ip, b) ==
    { j \in DOMAIN seq : seq[j].ip = ip /\ seq[j].timestamp \div BucketMinutes = b }

RECURSIVE SumOver(_, _, _)
SumOver(seq, positions, field) ==
    IF positions = {} THEN 0
    ELSE LET j == CHOOSE x \in positions : TRUE
         IN  seq[j][field] + SumOver(seq, positions \ {j}, field)

\* C12: when the call received k >= 2 outbound records of one allow-listed
\* address in one 5-minute bucket (none of them in a skipped state), the output
\* holds exactly one record for that address and bucket, carrying the sums of
\* the four counters over the k inputs.
C12_BucketAggregatedToOne ==
    reducePc = "returned" =>
      \A ip \in highVolumeIPs : \A b \in 0..1 :
        LET ins == InBucket(reduceInput, ip, b)
            outs == InBucket(reduceOutput, ip, b)
        IN  ( /\ Cardinality(ins) >= 2
              /\ \A j \in ins : /\ reduceInput[j].direction = "outbound"
                                /\ reduceInput[j].state = NoState )
            => /\ Cardinality(outs) = 1
               /\ \A j \in outs :
                    \A field \in {"orig_packets", "orig_bytes", "reply_packets",
                                  "reply_bytes"} :
                       reduceOutput[j][field] = SumOver(reduceInput, ins, field)

\* C13: every address of the input that no earlier call passed on appears in
\* at least one record of the output.
C13_FirstObservationKept ==
    reducePc = "returned" =>
      \A i \in DOMAIN reduceInput :
        reduceInput[i].ip \notin passedOn
           => \E j \in DOMAIN reduceOutput : reduceOutput[j].ip = reduceInput[i].ip

\* C31: a call passes on at most one inbound LISTEN record per
\* localAddress:localPort pair, and none for a pair of which a record was
\* passed on less than one hour earlier.
C31_ListeningDedupWindow ==
    reducePc = "returned" =>
      \A j \in DOMAIN reduceOutput :
        Listening(reduceOutput[j])
          => /\ \A k \in DOMAIN reduceOutput :
                   (Listening(reduceOutput[k]) /\ PortKey(reduceOutput[k]) = PortKey(reduceOutput[j]))
                      => k = j
             /\ PortKey(reduceOutput[j]) \in DOMAIN lastListenPass
                   => reduceNow - lastListenPass[PortKey(reduceOutput[j])] >= ListenWindowHours

-----------------------------------------------------------------------------
(* Claims about one entry's way to the table, checked under SpecNormalize.   *)

\* The positions of seq holding stage.
StageAt(seq, stage) == { j \in DOMAIN seq : seq[j] = stage }

\* C32: a record is inserted only after the reduction stage has run on it,
\* and no entry whose state is one of the transient states gets a row.
C32_ReductionBeforeInsert ==
    (normPc = "inserted" /\ insertedRows # {})
      => /\ \E i \in StageAt(stagesRun, "reduce") :
               \A j \in StageAt(stagesRun, "insert") : i < j
         /\ candidate.state \notin skipStates

\* C36: the row stored for a connection-tracking entry carries the entry's
\* local address, both ports, state and the four counters.
C36_NormalizerPreservesFields ==
    normPc = "inserted" =>
      \A row \in insertedRows :
        /\ row.internal_ip = candidate.internal_ip
        /\ row.internal_port = candidate.internal_port
        /\ row.external_port = candidate.external_port
        /\ row.state = candidate.state
        /\ row.orig_packets = candidate.orig_packets
        /\ row.orig_bytes = candidate.orig_bytes
        /\ row.reply_packets = candidate.reply_packets
        /\ row.reply_bytes = candidate.reply_bytes

-----------------------------------------------------------------------------
(* Claims about the retention configuration, checked under SpecConfig.       *)

\* The request asks for no usable value of the field: absent, zero or negative.
NotALimit(value) == value.type = "undefined" \/ (value.type = "number" /\ value.n <= 0)

\* C39: whatever requests PUT /api/retention/config has served, maxSizeMB and
\* maxAgeDays are positive; a request whose value for one of them is missing,
\* zero or negative left that field as it was; cleanupBatchSize is as it was.
C39_RetentionConfigStaysValid ==
    /\ retentionConfig.maxSizeMB > 0
    /\ retentionConfig.maxAgeDays > 0
    /\ putsMade > 0 =>
         /\ NotALimit(putBody.maxSizeMB)
               => retentionConfig.maxSizeMB = configBefore.maxSizeMB
         /\ NotALimit(putBody.maxAgeDays)
               => retentionConfig.maxAgeDays = configBefore.maxAgeDays
         /\ retentionConfig.cleanupBatchSize = configBefore.cleanupBatchSize

\* A request with a negative maxSizeMB and a usable maxAgeDays has been served:
\* the first was left alone, the second taken over.
C39_NegativeSizeIgnored ==
    /\ putsMade > 0
    /\ putBody.maxSizeMB = NumberValue(-1)
    /\ putBody.maxAgeDays = NumberValue(3)
    /\ retentionConfig.maxAgeDays = 3
    /\ retentionConfig.maxSizeMB = configBefore.maxSizeMB

-----------------------------------------------------------------------------
(* Claims about cleanup by age, checked under SpecAge.                       *)

\* C34: a row leaves the table only while the time limit is enabled and only
\* if it was written more than maxAgeDays before the step.
C34_OnlyExpiredRowsDeleted ==
    [][ \A r \in ageRows \ ageRows' :
          /\ retentionConfig.enableTimeLimit
          /\ r.instant < ageNow - retentionConfig.maxAgeDays * DayLength ]_vars

-----------------------------------------------------------------------------
(* Claims about job scheduling, checked under SpecJobs.                      *)

InProgress(runs) == { slot \in RunSlots : runs[slot].pc # "free" }

\* C14: at no time are two ingestion/enrichment runs in progress at once, nor
\* two retention runs.
C14_NoSelfOverlap ==
    /\ Cardinality(InProgress(ingestionRuns)) <= 1
    /\ Cardinality(InProgress(retentionRuns)) <= 1

====
